---- MODULE Spec2Model ----
(***************************************************************************)
(* A model of the subway validator: the export processor with its city     *)
(* cache (processors/mapsme.py), the driver loop (process_subways.py) and  *)
(* the route builder (subway_structure.py).                                *)
(*                                                                         *)
(* Python values are represented as follows.  A composite element id       *)
(* ('n12', 'r7') is a record [t |-> prefix letter, ds |-> decimal digits]; *)
(* a dict is a function whose DOMAIN is the key set (or, where the order   *)
(* of insertion is observable, a sequence of <<key, value>> pairs); a list *)
(* or a tuple is a sequence; None is the string "None" where the other     *)
(* values of the field are strings, -1 where they are naturals, and the    *)
(* empty tuple where they are records.                                     *)
(* Coordinates are integers, metres on a local plane.                      *)
(***************************************************************************)
EXTENDS Integers, Sequences, FiniteSets, TLC

VARIABLES
    \* --- uid() called on two composite ids
    ua, ub, utyp, ures_a, ures_b, upc,
    \* --- the export processor and the cache file, run after run
    cache_file, inp, result, loaded, recovered, again, runs, pc,
    \* --- one route being built: projection, order check, recovery, distances
    cur_route, recovery_data, stop_sequence, walk, disorder, itin, rpc,
    \* --- the driver loop over the cities
    dpc, dcity, derrors, good_cities, prev,
    \* --- one city being built and validated: what the operation is given, what
    \* --- it built (with the errors and warnings of the city), the step
    given, built, cpc

uid_vars == <<ua, ub, utyp, ures_a, ures_b, upc>>
proc_vars == <<cache_file, inp, result, loaded, recovered, again, runs, pc>>
route_vars == <<cur_route, recovery_data, stop_sequence, walk, disorder, itin, rpc>>
drv_vars == <<dpc, dcity, derrors, good_cities, prev>>
city_vars == <<given, built, cpc>>
vars == <<uid_vars, proc_vars, route_vars, drv_vars, city_vars>>

-----------------------------------------------------------------------------
(* Generic helpers *)

Abs(x) == IF x < 0 THEN -x ELSE x

Range(s) == {s[i] : i \in 1..Len(s)}

\* All orders in which a finite set can be iterated.
Orders(S) == {s \in [1..Cardinality(S) -> S] : \A i, j \in 1..Cardinality(S) : i # j => s[i] # s[j]}

\* One fixed order of a finite set, for loops whose result does not depend on it.
RECURSIVE SetToSeq(_)
SetToSeq(S) == IF S = {} THEN <<>> ELSE LET x == CHOOSE y \in S : TRUE IN <<x>> \o SetToSeq(S \ {x})

RECURSIVE Flatten(_)
Flatten(ss) == IF ss = <<>> THEN <<>> ELSE Head(ss) \o Flatten(Tail(ss))

\* reversed(s)
Reverse(s) == [i \in 1..Len(s) |-> s[Len(s) + 1 - i]]

\* Python's round() of the non-negative rational n / d: to nearest, halves to even.
RoundDiv(n, d) ==
    LET q == n \div d
        r == n % d
    IN IF 2 * r < d THEN q
       ELSE IF 2 * r > d THEN q + 1
       ELSE IF q % 2 = 0 THEN q ELSE q + 1

\* str(n) for n >= 0, as the sequence of its decimal digits
RECURSIVE str(_)
str(n) == IF n < 10 THEN <<n>> ELSE Append(str(n \div 10), n % 10)

\* int(s) for a sequence of decimal digits
RECURSIVE int(_)
int(ds) == IF ds = <<>> THEN 0 ELSE 10 * int(SubSeq(ds, 1, Len(ds) - 1)) + ds[Len(ds)]

\* x << k
Shl(x, k) == x * (2 ^ k)

RECURSIVE BitOr(_, _)
BitOr(a, b) ==
    IF a = 0 THEN b
    ELSE IF b = 0 THEN a
    ELSE (IF a % 2 = 1 \/ b % 2 = 1 THEN 1 ELSE 0) + 2 * BitOr(a \div 2, b \div 2)

-----------------------------------------------------------------------------
(* subway_structure.py: element ids *)

None == "None"

\* None in a field whose other values are objects
NoObject == <<>>

\* el['type'][0]
TypeLetter(type) == CASE type = "node" -> "n" [] type = "way" -> "w" [] type = "relation" -> "r"

\* el_id(el) = el['type'][0] + str(el['id'])
el_id(el) == [t |-> TypeLetter(el.type), ds |-> str(el.id)]

-----------------------------------------------------------------------------
(* processors/mapsme.py: uid *)

\* OSM_TYPES[t][0] and OSM_TYPES[t][1]
OSM_TYPES == [n |-> <<0, "node">>, w |-> <<2, "way">>, r |-> <<3, "relation">>]

\* The value standing for the exception uid() raises on a type mismatch.
UidRaised == -1

\* A plausible slip: the type tag shifted in by one bit only, so tags overlap ids.
uid_shift1(elid, typ) ==
    LET osm_id == int(elid.ds)
    IN IF typ = None THEN Shl(Shl(osm_id, 1) + OSM_TYPES[elid.t][1], 1)
       ELSE IF typ # elid.t THEN UidRaised
       ELSE Shl(osm_id, 1)

\* A plausible slip: the typ argument only checked, the tag encoded all the same.
uid_tagged(elid, typ) ==
    LET osm_id == int(elid.ds)
    IN IF typ # None /\ typ # elid.t THEN UidRaised
       ELSE Shl(Shl(osm_id, 2) + OSM_TYPES[elid.t][1], 1)

uid(elid, typ) ==
    LET t == elid.t
        osm_id == int(elid.ds)
    IN IF typ = None THEN Shl(Shl(osm_id, 2) + OSM_TYPES[t][1], 1)
       ELSE IF typ # t THEN UidRaised
       ELSE Shl(osm_id, 1)

-----------------------------------------------------------------------------
(* subway_structure.py: geometry and station classification *)

DISPLACEMENT_TOLERANCE == 300

ALL_MODES == {"subway", "light_rail", "monorail", "train", "tram", "bus", "trolleybus", "aerialway", "ferry"}

CONSTRUCTION_KEYS == {"construction", "proposed", "construction:railway", "proposed:railway"}

\* el.get('tags', {}).get(k)
TagGet(el, k) == IF "tags" \in DOMAIN el /\ k \in DOMAIN el.tags THEN el.tags[k] ELSE None

\* el_center(el): the node's point, else the precomputed centre
el_center(el) ==
    IF "lat" \in DOMAIN el THEN <<el.lon, el.lat>>
    ELSE IF "center" \in DOMAIN el THEN <<el.center.lon, el.center.lat>>
    ELSE <<>>

\* floor of the square root, found by bisection between lo and hi
RECURSIVE ISqrtBetween(_, _, _)
ISqrtBetween(n, lo, hi) ==
    IF hi - lo <= 1 THEN lo
    ELSE LET mid == (lo + hi) \div 2
         IN IF mid * mid <= n THEN ISqrtBetween(n, mid, hi) ELSE ISqrtBetween(n, lo, mid)

ISqrt(n) == ISqrtBetween(n, 0, 46341)

\* distance(p1, p2) in metres; exact for points on one axis, rounded down otherwise
distance(p1, p2) ==
    LET dx == Abs(p1[1] - p2[1])
        dy == Abs(p1[2] - p2[2])
    IN IF dy = 0 THEN dx ELSE IF dx = 0 THEN dy ELSE ISqrt(dx * dx + dy * dy)

\* A plausible slip: the distance rounded down before it is compared.
distance_above_floor(p1, p2, halves) == 2 * distance(p1, p2) > halves

\* distance(p1, p2) > halves / 2 metres, decided on the squares, so exactly
distance_above(p1, p2, halves) ==
    4 * ((p1[1] - p2[1]) * (p1[1] - p2[1]) + (p1[2] - p2[2]) * (p1[2] - p2[2])) > halves * halves

\* A plausible slip: the mode=yes tags of the element left out.
get_modes_station_only(el) ==
    IF TagGet(el, "station") = None THEN {} ELSE {TagGet(el, "station")}

\* Station.get_modes(el)
get_modes(el) ==
    (IF TagGet(el, "station") = None THEN {} ELSE {TagGet(el, "station")})
        \cup {m \in ALL_MODES : TagGet(el, m) = "yes"}

\* Station.is_station(el, modes)
is_station(el, modes) ==
    IF "tram" \in modes /\ TagGet(el, "railway") = "tram_stop" THEN TRUE
    ELSE IF TagGet(el, "railway") \notin {"station", "halt"} THEN FALSE
    ELSE IF \E k \in CONSTRUCTION_KEYS : k \in DOMAIN el.tags THEN FALSE
    ELSE IF "train" \notin modes /\ get_modes(el) \cap modes = {} THEN FALSE
    ELSE TRUE

\* City.is_good()
is_good(city) == Len(city.errors) = 0

-----------------------------------------------------------------------------
(* processors/mapsme.py: the cache *)

TRANSFER_PENALTY == 30

DEFAULT_INTERVAL_SECONDS == 150

EmptyDict == [k \in {} |-> 0]

\* d.update(e) for dicts as functions
DictUpdate(d, e) == [k \in DOMAIN d \cup DOMAIN e |-> IF k \in DOMAIN e THEN e[k] ELSE d[k]]

\* d[k] = v for dicts as functions
DictPut(d, k, v) == [x \in DOMAIN d \cup {k} |-> IF x = k THEN v ELSE d[x]]

\* Dicts whose insertion order is kept: sequences of <<key, value>>.
ODictHas(d, k) == \E i \in 1..Len(d) : d[i][1] = k

ODictSet(d, k, v) ==
    IF ODictHas(d, k) THEN [i \in 1..Len(d) |-> IF d[i][1] = k THEN <<k, v>> ELSE d[i]]
    ELSE Append(d, <<k, v>>)

\* json.dump of the cache followed by json.load of the text: dicts stay dicts with
\* their string keys, and the transfer tuples come back as three-element lists.
json_roundtrip(cache) ==
    [name \in DOMAIN cache |->
        [network |-> cache[name].network,
         stops |-> [k \in DOMAIN cache[name].stops |-> cache[name].stops[k]],
         transfers |-> [i \in 1..Len(cache[name].transfers) |->
                           <<cache[name].transfers[i][1], cache[name].transfers[i][2],
                             cache[name].transfers[i][3]>>]]]

\* MapsmeCache.__init__
MapsmeCache(cache_path, cities, file) ==
    IF cache_path = None
    THEN [is_used |-> FALSE, cache |-> EmptyDict, recovered_city_names |-> {},
          stop_cities |-> EmptyDict, city_dict |-> <<>>, good_city_names |-> {}]
    ELSE [is_used |-> TRUE,
          cache |-> IF file.exists THEN file.content ELSE EmptyDict,
          recovered_city_names |-> {},
          stop_cities |-> EmptyDict,
          city_dict |-> cities,
          good_city_names |-> {cities[i].name : i \in {j \in 1..Len(cities) : is_good(cities[j])}}]

\* self.stop_cities[u] of the defaultdict(set)
StopCities(co, u) == IF u \in DOMAIN co.stop_cities THEN co.stop_cities[u] ELSE {}

\* 'node' -> 'n': cached_stoparea['osm_type'][0] + str(cached_stoparea['osm_id'])
CachedStationId(st) == [t |-> TypeLetter(st.osm_type), ds |-> str(st.osm_id)]

\* A plausible slip: >= instead of > in the displacement test.
CachedStopUsable_ge(city, st) ==
    LET station_id == CachedStationId(st)
    IN /\ station_id \in DOMAIN city.elements
       /\ is_station(city.elements[station_id], city.modes)
       /\ ~(distance(el_center(city.elements[station_id]), <<st.lon, st.lat>>)
               >= DISPLACEMENT_TOLERANCE)

\* One round of the loop of MapsmeCache._is_cached_city_usable
CachedStopUsable(city, st) ==
    LET station_id == CachedStationId(st)
    IN /\ station_id \in DOMAIN city.elements
       /\ is_station(city.elements[station_id], city.modes)
       /\ ~(distance(el_center(city.elements[station_id]), <<st.lon, st.lat>>)
               > DISPLACEMENT_TOLERANCE)

\* MapsmeCache._is_cached_city_usable
is_cached_city_usable(co, city) ==
    \A k \in DOMAIN co.cache[city.name].stops : CachedStopUsable(city, co.cache[city.name].stops[k])

\* MapsmeCache.provide_stops_and_networks: acc = [stops, networks, co]
RECURSIVE provide_stops_and_networks_loop(_, _)
provide_stops_and_networks_loop(cs, acc) ==
    IF cs = <<>> THEN acc
    ELSE LET city == Head(cs)
             co == acc.co
             adopt == /\ ~is_good(city)
                      /\ city.name \in DOMAIN co.cache
                      /\ is_cached_city_usable(co, city)
         IN provide_stops_and_networks_loop(Tail(cs),
                IF adopt
                THEN [stops |-> DictUpdate(acc.stops, co.cache[city.name].stops),
                      networks |-> Append(acc.networks, co.cache[city.name].network),
                      co |-> [co EXCEPT !.recovered_city_names = @ \cup {city.name}]]
                ELSE acc)

provide_stops_and_networks(co, stops, networks) ==
    IF ~co.is_used THEN [stops |-> stops, networks |-> networks, co |-> co]
    ELSE provide_stops_and_networks_loop(co.city_dict, [stops |-> stops, networks |-> networks, co |-> co])

\* MapsmeCache.provide_transfers; names is the order in which the set
\* recovered_city_names is iterated
RECURSIVE provide_transfers_city(_, _)
provide_transfers_city(cached, transfers) ==
    IF cached = <<>> THEN transfers
    ELSE LET c == Head(cached)
         IN provide_transfers_city(Tail(cached),
                IF ~ODictHas(transfers, <<c[1], c[2]>>)
                THEN ODictSet(transfers, <<c[1], c[2]>>, c[3])
                ELSE transfers)

RECURSIVE provide_transfers_loop(_, _, _)
provide_transfers_loop(co, names, transfers) ==
    IF names = <<>> THEN transfers
    ELSE provide_transfers_loop(co, Tail(names),
             provide_transfers_city(co.cache[Head(names)].transfers, transfers))

provide_transfers(co, names, transfers) ==
    IF ~co.is_used THEN transfers ELSE provide_transfers_loop(co, names, transfers)

\* A plausible slip: the entry of a city already cached updated in place, so that
\* the stops and transfers of the previous run stay.
initialize_good_city_keep(co, city_name, network) ==
    IF ~co.is_used THEN co
    ELSE IF city_name \in DOMAIN co.cache
    THEN [co EXCEPT !.cache = DictPut(@, city_name, [@[city_name] EXCEPT !.network = network])]
    ELSE [co EXCEPT !.cache = DictPut(@, city_name,
              [network |-> network, stops |-> EmptyDict, transfers |-> <<>>])]

\* MapsmeCache.initialize_good_city
initialize_good_city(co, city_name, network) ==
    IF ~co.is_used THEN co
    ELSE [co EXCEPT !.cache = DictPut(@, city_name,
              [network |-> network, stops |-> EmptyDict, transfers |-> <<>>])]

\* MapsmeCache.link_stop_with_city
link_stop_with_city(co, stoparea_id, city_name) ==
    IF ~co.is_used THEN co
    ELSE LET stoparea_uid == uid(stoparea_id, None)
         IN [co EXCEPT !.stop_cities = DictPut(@, stoparea_uid, StopCities(co, stoparea_uid) \cup {city_name})]

\* A plausible slip: the stop area added to the entry of every cached city
add_stop_to_every_city(co, stoparea_id, st) ==
    IF ~co.is_used THEN co
    ELSE [co EXCEPT !.cache = [n \in DOMAIN @ |-> [@[n] EXCEPT !.stops = DictPut(@, stoparea_id, st)]]]

\* MapsmeCache.add_stop
add_stop(co, stoparea_id, st) ==
    IF ~co.is_used THEN co
    ELSE LET names == StopCities(co, uid(stoparea_id, None))
         IN [co EXCEPT !.cache = [n \in DOMAIN @ |->
                IF n \in names THEN [@[n] EXCEPT !.stops = DictPut(@, stoparea_id, st)] ELSE @[n]]]

\* MapsmeCache.add_transfer
add_transfer(co, stoparea1_uid, stoparea2_uid, transfer_time) ==
    IF ~co.is_used THEN co
    ELSE LET names == co.good_city_names \cap StopCities(co, stoparea1_uid) \cap StopCities(co, stoparea2_uid)
         IN [co EXCEPT !.cache = [n \in DOMAIN @ |->
                IF n \in names
                THEN [@[n] EXCEPT !.transfers = Append(@, <<stoparea1_uid, stoparea2_uid, transfer_time>>)]
                ELSE @[n]]]

\* MapsmeCache.save: the file as the next run reads it
save(co, file) ==
    IF ~co.is_used THEN file ELSE [exists |-> TRUE, content |-> json_roundtrip(co.cache)]

-----------------------------------------------------------------------------
(* processors/mapsme.py: process *)

\* round(stop.distance / SPEED_ON_LINE), SPEED_ON_LINE = 40 / 3.6 m/s
LineSeconds(d) == RoundDiv(d * 36, 400)

\* TRANSFER_PENALTY + round(distance / SPEED_ON_TRANSFER), SPEED_ON_TRANSFER = 3.5 / 3.6 m/s
TransferTime(p1, p2) == TRANSFER_PENALTY + RoundDiv(distance(p1, p2) * 36, 35)

\* The itinerary of one route variant (the loop over `variant` in process)
Itinerary(variant) ==
    [stops |-> [j \in 1..Len(variant.stops) |->
                   <<uid(variant.stops[j].stoparea.id, None), LineSeconds(variant.stops[j].distance)>>],
     interval |-> IF variant.interval = 0 THEN DEFAULT_INTERVAL_SECONDS ELSE variant.interval * 60]

\* The record of one route master (the loop over `route` in process)
RouteRecord(route) ==
    [type |-> route.mode,
     ref |-> route.ref,
     route_id |-> uid(route.id, "r"),
     itineraries |-> [i \in 1..Len(route.routes) |-> Itinerary(route.routes[i])]]

\* Every (city, stop) the three nested loops of process visit for one good city, in order
CityVisits(city) ==
    Flatten([r \in 1..Len(city.routes) |->
        Flatten([v \in 1..Len(city.routes[r].routes) |->
            [j \in 1..Len(city.routes[r].routes[v].stops) |->
                [city |-> city.name, stoparea |-> city.routes[r].routes[v].stops[j].stoparea]]])])

\* stop_areas[stop.stoparea.id] = stop.stoparea; cache.link_stop_with_city(...)
RECURSIVE VisitStops(_, _)
VisitStops(visits, acc) ==
    IF visits = <<>> THEN acc
    ELSE LET v == Head(visits)
         IN VisitStops(Tail(visits),
                [acc EXCEPT !.stop_areas = DictPut(@, v.stoparea.id, v.stoparea),
                            !.co = link_stop_with_city(@, v.stoparea.id, v.city)])

\* The body of `for city in good_cities`.  The network dict handed to
\* initialize_good_city is the object the routes are appended to afterwards, so
\* the cache entry ends up holding the finished network.
GoodCityStep(acc, city) ==
    LET network == [network |-> city.name,
                    routes |-> [r \in 1..Len(city.routes) |-> RouteRecord(city.routes[r])],
                    agency_id |-> city.id]
        co1 == initialize_good_city(acc.co, city.name, network)
        visited == VisitStops(CityVisits(city), [acc EXCEPT !.co = co1])
    IN [visited EXCEPT !.networks = Append(@, network)]

RECURSIVE GoodCitiesLoop(_, _)
GoodCitiesLoop(cs, acc) ==
    IF cs = <<>> THEN acc ELSE GoodCitiesLoop(Tail(cs), GoodCityStep(acc, Head(cs)))

\* The stop record `st` built for one StopArea
StopRecord(stop) ==
    [lat |-> stop.center[2],
     lon |-> stop.center[1],
     osm_type |-> OSM_TYPES[stop.station.id.t][2],
     osm_id |-> int(stop.station.id.ds),
     id |-> uid(stop.id, None)]

\* `for stop_id, stop in stop_areas.items()`: stops[stop_id] = st; cache.add_stop(stop_id, st)
RECURSIVE StopsLoop(_, _, _)
StopsLoop(ids, stop_areas, acc) ==
    IF ids = <<>> THEN acc
    ELSE LET stop_id == Head(ids)
             st == StopRecord(stop_areas[stop_id])
         IN StopsLoop(Tail(ids), stop_areas,
                [acc EXCEPT !.stops = DictPut(@, stop_id, st),
                            !.co = add_stop(@, stop_id, st)])

\* A plausible slip: the two uids of a pair left in the order of the set.
PairKey_unsorted(u1, u2) == <<u1, u2>>

\* uid1, uid2 = sorted([uid1, uid2])
PairKey(u1, u2) == IF u1 <= u2 THEN <<u1, u2>> ELSE <<u2, u1>>

\* The pairs (t_first, t_second) of one transfer set of size n, in loop order
Pairs(n) == Flatten([a \in 1..(n - 1) |-> [b \in 1..(n - a) |-> <<a, a + b>>]])

\* A plausible slip: the pairs taken whether or not their stop areas are exported
RECURSIVE TransferPairsLoop_unfiltered(_, _, _, _)
TransferPairsLoop_unfiltered(ps, t, stops, acc) ==
    IF ps = <<>> THEN acc
    ELSE LET stoparea1 == t[Head(ps)[1]]
             stoparea2 == t[Head(ps)[2]]
             key == PairKey(uid(stoparea1.id, None), uid(stoparea2.id, None))
             transfer_time == TransferTime(stoparea1.center, stoparea2.center)
         IN TransferPairsLoop_unfiltered(Tail(ps), t, stops,
                [pairwise_transfers |-> ODictSet(acc.pairwise_transfers, key, transfer_time),
                 co |-> add_transfer(acc.co, key[1], key[2], transfer_time)])

\* The two inner loops of process over one transfer set, listed as t
RECURSIVE TransferPairsLoop(_, _, _, _)
TransferPairsLoop(ps, t, stops, acc) ==
    IF ps = <<>> THEN acc
    ELSE LET stoparea1 == t[Head(ps)[1]]
             stoparea2 == t[Head(ps)[2]]
             key == PairKey(uid(stoparea1.id, None), uid(stoparea2.id, None))
             transfer_time == TransferTime(stoparea1.center, stoparea2.center)
         IN TransferPairsLoop(Tail(ps), t, stops,
                IF stoparea1.id \in DOMAIN stops /\ stoparea2.id \in DOMAIN stops
                THEN [pairwise_transfers |-> ODictSet(acc.pairwise_transfers, key, transfer_time),
                      co |-> add_transfer(acc.co, key[1], key[2], transfer_time)]
                ELSE acc)

\* `for t_set in transfers`; ts[i] is list(t_set) of the i-th set
RECURSIVE TransfersLoop(_, _, _)
TransfersLoop(ts, stops, acc) ==
    IF ts = <<>> THEN acc
    ELSE TransfersLoop(Tail(ts), stops,
             TransferPairsLoop(Pairs(Len(Head(ts))), Head(ts), stops, acc))

\* process(cities, transfers, cache_path) on the cache file `file`.  The sets the
\* code iterates have no specified order: ts lists each transfer set in the order
\* list(t_set) gives, and names lists the city names in the order in which the set
\* recovered_city_names is walked.  The value is the export and the file saved.
process(cities, ts, cache_path, file, names) ==
    LET cache == MapsmeCache(cache_path, cities, file)
        good == SelectSeq(cities, is_good)
        provided == provide_stops_and_networks(cache, EmptyDict, <<>>)
        looped == GoodCitiesLoop(good,
                      [stop_areas |-> EmptyDict, networks |-> provided.networks, co |-> provided.co])
        stopped == StopsLoop(SetToSeq(DOMAIN looped.stop_areas), looped.stop_areas,
                       [stops |-> provided.stops, co |-> looped.co])
        paired == TransfersLoop(ts, stopped.stops,
                       [pairwise_transfers |-> <<>>, co |-> stopped.co])
        walked == SelectSeq(names, LAMBDA n : n \in paired.co.recovered_city_names)
        pairwise_transfers == provide_transfers(paired.co, walked, paired.pairwise_transfers)
        stop_ids == SetToSeq(DOMAIN stopped.stops)
    IN [result |-> [stops |-> [i \in 1..Len(stop_ids) |-> stopped.stops[stop_ids[i]]],
                    transfers |-> [i \in 1..Len(pairwise_transfers) |->
                                      <<pairwise_transfers[i][1][1], pairwise_transfers[i][1][2],
                                        pairwise_transfers[i][2]>>],
                    networks |-> looped.networks],
        file |-> save(paired.co, file),
        recovered |-> paired.co.recovered_city_names,
        loaded |-> cache.cache]

-----------------------------------------------------------------------------
(* subway_structure.py: positions on a line and distances along it.  A position
   inside a segment is a fraction <<n, d>> with d > 0; None is <<>>. *)

MAX_DISTANCE_STOP_TO_LINE == 50

RECURSIVE GCD(_, _)
GCD(a, b) == IF b = 0 THEN a ELSE GCD(b, a % b)

\* n / d in lowest terms
Frac(n, d) ==
    LET reduced(g) == IF d < 0 THEN <<(-n) \div g, (-d) \div g>> ELSE <<n \div g, d \div g>>
    IN reduced(GCD(Abs(n), Abs(d)))

FracLe(a, b) == a[1] * b[2] <= b[1] * a[2]

FracLt(a, b) == a[1] * b[2] < b[1] * a[2]

FracEq(a, b) == a[1] * b[2] = b[1] * a[2]

FracAdd(a, b) == Frac(a[1] * b[2] + b[1] * a[2], a[2] * b[2])

\* 0 <= a <= 1
FracInUnit(a) == 0 <= a[1] /\ a[1] <= a[2]

\* is_near(p1, p2): the same point up to 1e-8 degrees
is_near(p1, p2) == p1 = p2

\* (None, None)
NoSegment == [seg |-> -1, pos |-> <<>>]

\* find_segment(p, line, start_vertex); segments are counted from 0 as in the code
RECURSIVE find_segment(_, _, _)
find_segment(p, line, start_vertex) ==
    IF start_vertex >= Len(line) - 1 THEN NoSegment
    ELSE LET \* the body of the loop for the segment from a to b: what it returns,
             \* or NoSegment when it goes on to the next segment
             inside(a, b, px, py) ==
                 IF is_near(p, a) THEN [seg |-> start_vertex, pos |-> <<0, 1>>]
                 ELSE IF a[1] = b[1] /\ p[1] # a[1] THEN NoSegment
                 ELSE IF px # <<>> /\ ~FracInUnit(px) THEN NoSegment
                 ELSE IF a[2] = b[2] /\ p[2] # a[2] THEN NoSegment
                 ELSE IF py # <<>> /\ ~FracInUnit(py) THEN NoSegment
                 ELSE IF py = <<>> \/ px = <<>> \/ FracEq(px, py)
                      THEN [seg |-> start_vertex, pos |-> IF px # <<>> /\ px[1] # 0 THEN px ELSE py]
                      ELSE NoSegment
             segment(a, b) ==
                 inside(a, b,
                        IF a[1] = b[1] THEN <<>> ELSE Frac(p[1] - a[1], b[1] - a[1]),
                        IF a[2] = b[2] THEN <<>> ELSE Frac(p[2] - a[2], b[2] - a[2]))
             returned(found) ==
                 IF found.seg # -1 THEN found ELSE find_segment(p, line, start_vertex + 1)
         IN returned(segment(line[start_vertex + 1], line[start_vertex + 2]))

\* the sum of distance(line[i], line[i+1]) for i in range(from, to)
RECURSIVE SegmentsLength(_, _, _)
SegmentsLength(line, from, to) ==
    IF from >= to THEN 0
    ELSE distance(line[from + 1], line[from + 2]) + SegmentsLength(line, from + 1, to)

\* None of distance_on_line
NoDistance == [d |-> <<>>, vertex |-> -1]

\* distance_on_line(p1, p2, line, start_vertex): the pair (d, vertex) or None.
\* The second search starts at seg1, so seg2 < seg1 (the raise) cannot happen.
\* ext is `line + line[1:]` of a closed line, which has the segments of line first.
distance_on_line(p1, p2, line, start_vertex) ==
    LET measured(s1, s2, len1, len2, middle) ==
            IF s1.seg = s2.seg
            THEN [d |-> Frac(len1 * Abs(s2.pos[1] * s1.pos[2] - s1.pos[1] * s2.pos[2]),
                             s1.pos[2] * s2.pos[2]),
                  vertex |-> s1.seg]
            ELSE [d |-> FracAdd(
                          FracAdd(IF s1.pos[1] < s1.pos[2]
                                  THEN Frac(len1 * (s1.pos[2] - s1.pos[1]), s1.pos[2]) ELSE <<0, 1>>,
                                  <<middle, 1>>),
                          IF 0 < s2.pos[1] THEN Frac(len2 * s2.pos[1], s2.pos[2]) ELSE <<0, 1>>),
                  vertex |-> s2.seg % Len(line)]
        between(s1, s2, ext) ==
            IF s2.seg = -1 THEN NoDistance
            ELSE measured(s1, s2,
                          distance(ext[s1.seg + 1], ext[s1.seg + 2]),
                          distance(ext[s2.seg + 1], ext[s2.seg + 2]),
                          SegmentsLength(ext, s1.seg + 1, s2.seg))
        second(s1, first, ext) ==
            IF first.seg = -1 /\ line[1] = line[Len(line)]
            THEN between(s1, find_segment(p2, ext, s1.seg), ext)
            ELSE between(s1, first, ext)
        from(s1) ==
            IF s1.seg = -1 THEN NoDistance
            ELSE second(s1, find_segment(p2, line, s1.seg),
                        IF line[1] = line[Len(line)] THEN line \o Tail(line) ELSE line)
    IN from(find_segment(p1, line, start_vertex))

\* A plausible slip: each stop given the length of its own segment, not the sum.
RECURSIVE calculate_distances_segment(_, _, _, _)
calculate_distances_segment(stops, tracks, i, vertex) ==
    IF i >= Len(stops) THEN stops
    ELSE IF i = 0 THEN calculate_distances_segment([stops EXCEPT ![1].distance = 0], tracks, 1, vertex)
    ELSE LET chosen(direct, d_line, along) ==
                 calculate_distances_segment(
                     [stops EXCEPT ![i + 1].distance =
                         IF along THEN RoundDiv(d_line.d[1], d_line.d[2]) ELSE direct],
                     tracks, i + 1, IF along THEN d_line.vertex ELSE vertex)
             compared(direct, d_line) ==
                 chosen(direct, d_line,
                        /\ d_line.vertex # -1
                        /\ FracLe(<<direct - 10, 1>>, d_line.d)
                        /\ FracLe(d_line.d, <<direct * 2, 1>>))
         IN compared(distance(stops[i + 1].stop, stops[i].stop),
                     distance_on_line(stops[i].stop, stops[i + 1].stop, tracks, vertex))

calculate_distances_apart(stops, tracks) == calculate_distances_segment(stops, tracks, 0, 0)

\* The loop of Route.calculate_distances from the stop of index i (counted from 0)
RECURSIVE calculate_distances_loop(_, _, _, _, _)
calculate_distances_loop(stops, tracks, i, dist, vertex) ==
    IF i >= Len(stops) THEN stops
    ELSE IF i = 0
    THEN calculate_distances_loop([stops EXCEPT ![1].distance = dist], tracks, 1, dist, vertex)
    ELSE LET added(dist2, vertex2) ==
                 calculate_distances_loop([stops EXCEPT ![i + 1].distance = dist2], tracks, i + 1,
                                          dist2, vertex2)
             chosen(direct, d_line, along) ==
                 added(dist + (IF along THEN RoundDiv(d_line.d[1], d_line.d[2]) ELSE direct),
                       IF along THEN d_line.vertex ELSE vertex)
             \* if d_line and direct-10 <= d_line[0] <= direct*2
             compared(direct, d_line) ==
                 chosen(direct, d_line,
                        /\ d_line.vertex # -1
                        /\ FracLe(<<direct - 10, 1>>, d_line.d)
                        /\ FracLe(d_line.d, <<direct * 2, 1>>))
         IN compared(distance(stops[i + 1].stop, stops[i].stop),
                     distance_on_line(stops[i].stop, stops[i + 1].stop, tracks, vertex))

\* Route.calculate_distances: the stops with their distance from the first one
calculate_distances(stops, tracks) == calculate_distances_loop(stops, tracks, 0, 0, 0)

-----------------------------------------------------------------------------
(* subway_structure.py: projecting the stops of a route on its tracks *)

\* Metres in one degree: 6378137 * radians(1)
MetresPerDegree == 111319

\* project_on_segment(p, p1, p2): the fraction u, or None
project_on_segment(p, p1, p2) ==
    LET dp == <<p2[1] - p1[1], p2[2] - p1[2]>>
        d2 == dp[1] * dp[1] + dp[2] * dp[2]
        inside(u) == IF ~FracInUnit(u) THEN <<>> ELSE u
    IN IF d2 = 0 THEN <<>>
       ELSE inside(Frac((p[1] - p1[1]) * dp[1] + (p[2] - p1[2]) * dp[2], d2))

\* project_on_line, first loop: the vertices of the line, from index i (from 0)
RECURSIVE project_vertices(_, _, _, _)
project_vertices(p, line, i, acc) ==
    IF i >= Len(line) THEN acc
    ELSE LET at(vertex, d) ==
                 IF d < acc.d_min
                 THEN [positions_on_rails |-> << <<i, 1>> >>, projected_point |-> vertex,
                       d_min |-> d, closest_to_vertex |-> TRUE]
                 ELSE IF vertex = acc.projected_point
                 THEN [acc EXCEPT !.positions_on_rails = Append(@, <<i, 1>>)]
                 ELSE acc
         IN project_vertices(p, line, i + 1, at(line[i + 1], distance(p, line[i + 1])))

\* project_on_line, second loop: the segments.  The bounding box test adds
\* MAX_DISTANCE_STOP_TO_LINE to coordinates that are degrees.
RECURSIVE project_segments(_, _, _, _)
project_segments(p, line, seg, acc) ==
    IF seg >= Len(line) - 1 THEN acc
    ELSE LET a == line[seg + 1]
             b == line[seg + 2]
             slack == MAX_DISTANCE_STOP_TO_LINE * MetresPerDegree
             lo(x, y) == IF x < y THEN x ELSE y
             hi(x, y) == IF x < y THEN y ELSE x
             inbox == /\ lo(a[1], b[1]) - slack <= p[1] /\ p[1] <= hi(a[1], b[1]) + slack
                      /\ lo(a[2], b[2]) - slack <= p[2] /\ p[2] <= hi(a[2], b[2]) + slack
             nearer(u, projected_point, d) ==
                 IF d < acc.d_min
                 THEN [positions_on_rails |-> << <<seg * u[2] + u[1], u[2]>> >>,
                       projected_point |-> projected_point,
                       d_min |-> d, closest_to_vertex |-> FALSE]
                 ELSE IF projected_point = acc.projected_point /\ ~acc.closest_to_vertex
                 THEN [acc EXCEPT !.positions_on_rails = Append(@, <<seg * u[2] + u[1], u[2]>>)]
                 ELSE acc
             at(u, projected_point) == nearer(u, projected_point, distance(p, projected_point))
             projected(u) ==
                 IF u = <<>> \/ u[1] = 0 THEN acc
                 ELSE at(u, <<a[1] + (u[1] * (b[1] - a[1])) \div u[2],
                              a[2] + (u[1] * (b[2] - a[2])) \div u[2]>>)
         IN project_segments(p, line, seg + 1,
                IF ~inbox THEN acc ELSE projected(project_on_segment(p, a, b)))

\* project_on_line(p, line)
project_on_line(p, line) ==
    IF Len(line) < 2 THEN [positions_on_rails |-> <<>>, projected_point |-> <<>>]
    ELSE LET r == project_segments(p, line, 0,
                      project_vertices(p, line, 0,
                          [positions_on_rails |-> <<>>, projected_point |-> <<>>,
                           d_min |-> MAX_DISTANCE_STOP_TO_LINE * 5, closest_to_vertex |-> FALSE]))
         IN [positions_on_rails |-> r.positions_on_rails, projected_point |-> r.projected_point]

\* The numbers of a finite set in increasing order
RECURSIVE Ascending(_)
Ascending(S) ==
    IF S = {} THEN <<>>
    ELSE LET m == CHOOSE x \in S : \A y \in S : x <= y IN <<m>> \o Ascending(S \ {m})

\* Route.project_stops_on_line: the route with its stops moved on the tracks and
\* its tracks extended, and stops_on_longest_line as indexes into the stops
project_stops_on_line(r) ==
    LET n == Len(r.stops)
        \* start and end of the code counted from 1; off holds the stops that are
        \* not projected or lie beyond MAX_DISTANCE_STOP_TO_LINE of their projection.
        \* round(d) > MAX_DISTANCE_STOP_TO_LINE is d > MAX_DISTANCE_STOP_TO_LINE + 1/2:
        \* round() takes a half to the even number
        placed(projected, start, end) ==
            LET tracks_start == [i \in 1..(start - 1) |-> r.stops[i].stop]
                tracks_end == [i \in 1..(n - end) |-> r.stops[end + i].stop]
                nowhere == {i \in start..end : projected[i].projected_point = <<>>}
                kept == {i \in start..end : projected[i].projected_point # <<>>}
                far == {i \in kept : distance_above(r.stops[i].stop, projected[i].projected_point,
                                                    2 * MAX_DISTANCE_STOP_TO_LINE + 1)}
            IN [route |-> [r EXCEPT
                    !.stops = [i \in 1..n |->
                        IF i \notin kept THEN r.stops[i]
                        ELSE [r.stops[i] EXCEPT
                                !.stop = IF i \in far THEN @ ELSE projected[i].projected_point,
                                !.positions_on_rails = projected[i].positions_on_rails]],
                    !.tracks = IF start > n THEN tracks_start
                               ELSE IF tracks_start # <<>> \/ tracks_end # <<>>
                               THEN tracks_start \o r.tracks \o tracks_end
                               ELSE r.tracks,
                    !.errors = @ \o [i \in 1..Cardinality(nowhere) |-> "nowhere near the tracks"],
                    !.warnings = @ \o [i \in 1..Cardinality(far) |-> "far from the tracks"]],
                stops_on_longest_line |-> Ascending(kept)]
        bounded(projected, off, on) ==
            placed(projected,
                   IF on = {} THEN n + 1 ELSE CHOOSE i \in on : \A j \in on : i <= j,
                   IF on = {} THEN n ELSE CHOOSE i \in on : \A j \in on : j <= i)
        measured(projected, off) == bounded(projected, off, (1..n) \ off)
        projection(projected) ==
            measured(projected,
                     {i \in 1..n :
                         \/ projected[i].projected_point = <<>>
                         \/ distance_above(r.stops[i].stop, projected[i].projected_point,
                                           2 * MAX_DISTANCE_STOP_TO_LINE)})
    IN projection([i \in 1..n |-> project_on_line(r.stops[i].stop, r.tracks)])

-----------------------------------------------------------------------------
(* subway_structure.py: checking and recovering the order of the stops *)

ALLOWED_ANGLE_BETWEEN_STOPS == 45

DISALLOWED_ANGLE_BETWEEN_STOPS == 20

\* angle_between rounds to whole degrees, so "angle < limit" holds for the
\* angles below limit - 0.5 degrees: cos^2 of that bound, in thousandths.
CosSquared(limit) ==
    CASE limit = ALLOWED_ANGLE_BETWEEN_STOPS -> 509
      [] limit = DISALLOWED_ANGLE_BETWEEN_STOPS -> 889

\* A vector of the same direction with the smallest whole coordinates
Direction(v) ==
    LET g == GCD(Abs(v[1]), Abs(v[2]))
    IN IF g = 0 THEN v ELSE <<v[1] \div g, v[2] \div g>>

\* angle_between(p1, c, p2) < limit, decided on the cosine of the angle
angle_between_below(p1, c, p2, limit) ==
    LET a == Direction(<<p1[1] - c[1], p1[2] - c[2]>>)
        b == Direction(<<p2[1] - c[1], p2[2] - c[2]>>)
        dot == a[1] * b[1] + a[2] * b[2]
        aa == a[1] * a[1] + a[2] * a[2]
        bb == b[1] * b[1] + b[2] * b[2]
    IN dot > 0 /\ dot * dot * 1000 > CosSquared(limit) * aa * bb

\* Route.check_stops_order_by_angle: (disorder_warnings, disorder_errors)
check_stops_order_by_angle(stops) ==
    LET narrow(si, limit) ==
            angle_between_below(stops[si].stop, stops[si + 1].stop, stops[si + 2].stop, limit)
        around == 1..(Len(stops) - 2)
        errs == {si \in around : narrow(si, DISALLOWED_ANGLE_BETWEEN_STOPS)}
        warns == {si \in around : narrow(si, ALLOWED_ANGLE_BETWEEN_STOPS)} \ errs
    IN [warnings |-> [k \in 1..Cardinality(warns) |-> "Angle between stops is too narrow"],
        errors |-> [k \in 1..Cardinality(errs) |-> "Angle between stops is too narrow"]]

\* The start of check_stops_order_on_tracks_direct with every stop allowed one violation
walk_start_lenient(is_circular, seq) ==
    [seq |-> seq, i |-> 1, max_position_on_rails |-> <<-1, 1>>,
     allowed_order_violations |-> 1, violations |-> 0, error |-> None]

\* Route.check_stops_order_on_tracks_direct before its loop.  seq is the stop
\* sequence (indexes into the stops of the route), i the next stop to look at;
\* violations counts the stops none of whose positions was suitable.
walk_start(is_circular, seq) ==
    [seq |-> seq, i |-> 1, max_position_on_rails |-> <<-1, 1>>,
     allowed_order_violations |-> IF is_circular THEN 1 ELSE 0,
     violations |-> 0, error |-> None]

\* The first occurrence (from 0) not behind max_position_on_rails, or their number
suitable_occurrence(positions_on_rails, max_position_on_rails) ==
    LET ok == {k \in 0..(Len(positions_on_rails) - 1) :
                  ~FracLt(positions_on_rails[k + 1], max_position_on_rails)}
    IN IF ok = {} THEN Len(positions_on_rails) ELSE CHOOSE k \in ok : \A j \in ok : k <= j

\* One turn of the loop of check_stops_order_on_tracks_direct
walk_step(w, positions_on_rails) ==
    LET so == suitable_occurrence(positions_on_rails, w.max_position_on_rails)
    IN IF so = Len(positions_on_rails)
       THEN IF w.allowed_order_violations > 0
            THEN [w EXCEPT !.allowed_order_violations = @ - 1,
                           !.violations = @ + 1,
                           !.max_position_on_rails = positions_on_rails[so],
                           !.i = @ + 1]
            ELSE [w EXCEPT !.violations = @ + 1,
                           !.error = "Stops on tracks are unordered"]
       ELSE [w EXCEPT !.max_position_on_rails = positions_on_rails[so + 1], !.i = @ + 1]

\* How often x occurs in the sequence s
Count(s, x) == Cardinality({i \in 1..Len(s) : s[i] = x})

\* Route.try_resort_stops: success and the stops in the recovered order.
\* data is city.recovery_data[route_id], empty when the route is not in it.
try_resort_stops(r, data) ==
    LET n == Len(r.stops)
        stop_names == [i \in 1..n |-> r.stops[i].stoparea.name]
        repeating == \E i, j \in 1..n : i # j /\ stop_names[i] = stop_names[j]
        self_stops(name) == r.stops[CHOOSE i \in 1..n : stop_names[i] = name]
        itinerary_stop_names(it) == [k \in 1..Len(it.stations) |-> it.stations[k].name]
        same_names(it) ==
            /\ n = Len(it.stations)
            /\ \A x \in Range(stop_names) \cup Range(itinerary_stop_names(it)) :
                  Count(stop_names, x) = Count(itinerary_stop_names(it), x)
        big_station_displacement(it) ==
            \E k \in 1..Len(it.stations) :
                distance(it.stations[k].center, self_stops(it.stations[k].name).stoparea.center)
                    > DISPLACEMENT_TOLERANCE
        suitable_itineraries ==
            SelectSeq(data, LAMBDA it : same_names(it) /\ ~big_station_displacement(it))
        matching_itineraries ==
            SelectSeq(suitable_itineraries,
                      LAMBDA it : \/ r.from_tag # None /\ it.from = r.from_tag
                                  \/ r.to_tag # None /\ it.to = r.to_tag)
        fail == [success |-> FALSE, stops |-> r.stops]
        resorted(it) ==
            [success |-> TRUE,
             stops |-> [k \in 1..Len(it.stations) |-> self_stops(it.stations[k].name)]]
    IN IF repeating \/ data = <<>> THEN fail
       ELSE IF Len(suitable_itineraries) = 0 THEN fail
       ELSE IF Len(suitable_itineraries) = 1 THEN resorted(suitable_itineraries[1])
       ELSE IF r.from_tag = None /\ r.to_tag = None THEN fail
       ELSE IF Len(matching_itineraries) # 1 THEN fail
       ELSE resorted(matching_itineraries[1])

\* A plausible slip: the errors of a recovered route still recorded as errors
check_and_recover_keeping_errors(r, data, found) ==
    LET resort == IF data # <<>> THEN try_resort_stops(r, data)
                  ELSE [success |-> FALSE, stops |-> r.stops]
    IN IF found.warnings = <<>> /\ found.errors = <<>> THEN r
       ELSE [r EXCEPT !.stops = resort.stops,
                      !.warnings = @ \o found.warnings, !.errors = @ \o found.errors]

\* Route.check_and_recover_stops_order, given what check_stops_order returned
check_and_recover_stops_order(r, data, found) ==
    LET resort == IF data # <<>> THEN try_resort_stops(r, data)
                  ELSE [success |-> FALSE, stops |-> r.stops]
        fixed == [k \in 1..Len(found.errors) |-> "Fixed with recovery data"]
    IN IF found.warnings = <<>> /\ found.errors = <<>> THEN r
       ELSE IF resort.success
       THEN [r EXCEPT !.stops = resort.stops, !.warnings = @ \o found.warnings \o fixed]
       ELSE [r EXCEPT !.warnings = @ \o found.warnings, !.errors = @ \o found.errors]

-----------------------------------------------------------------------------
(* subway_structure.py: RouteMaster.  An interval that is None is 0. *)

\* Route.get_network(relation)
get_network(relation) ==
    IF TagGet(relation, "network:metro") # None THEN TagGet(relation, "network:metro")
    ELSE IF TagGet(relation, "network") # None THEN TagGet(relation, "network")
    ELSE TagGet(relation, "operator")

\* a > b for two strings of decimal digits, as Python compares strings
RECURSIVE DigitsGreater(_, _)
DigitsGreater(a, b) ==
    IF a = <<>> THEN FALSE
    ELSE IF b = <<>> THEN TRUE
    ELSE IF Head(a) # Head(b) THEN Head(a) > Head(b)
    ELSE DigitsGreater(Tail(a), Tail(b))

\* A plausible slip: the ids compared as numbers, not as strings
IdGreater_numeric(a, b) == int(a.ds) > int(b.ds)

\* a > b for two ids of relations, 'r' + digits
IdGreater(a, b) == DigitsGreater(a.ds, b.ds)

\* RouteMaster.__init__(master) for a master without colour and interval tags
RouteMaster_init(master) ==
    IF master = NoObject
    THEN [routes |-> <<>>, best |-> NoObject, id |-> NoObject, has_master |-> FALSE,
          interval_from_master |-> FALSE, ref |-> None, colour |-> None, infill |-> None,
          network |-> None, mode |-> None, name |-> None, interval |-> 0]
    ELSE [routes |-> <<>>, best |-> NoObject, id |-> el_id(master), has_master |-> TRUE,
          interval_from_master |-> FALSE,
          ref |-> IF TagGet(master, "ref") # None THEN TagGet(master, "ref")
                  ELSE TagGet(master, "name"),
          colour |-> None, infill |-> None,
          network |-> get_network(master),
          mode |-> TagGet(master, "route_master"),
          name |-> TagGet(master, "name"), interval |-> 0]

\* A plausible slip: the variant of a different mode reported but taken all the same.
RouteMaster_add_any_mode(rm, route, c) ==
    LET taken == [rm EXCEPT !.routes = Append(@, route),
                            !.best = IF rm.best = NoObject \/ Len(rm.best.stops) = 0
                                        \/ Len(route.stops) > Len(rm.best.stops)
                                     THEN route ELSE @]
    IN [master |-> IF rm.mode = None THEN [taken EXCEPT !.mode = route.mode] ELSE taken,
        errors |-> IF rm.mode # None /\ route.mode # rm.mode
                   THEN Append(c.errors, "Incompatible PT mode") ELSE c.errors,
        warnings |-> c.warnings]

\* RouteMaster.add(route, city): the master, and the errors and warnings of the
\* city.  `not self.best` is true of None and also of a route without stops,
\* since Route has __len__ and no __bool__.
RouteMaster_add(rm, route, c) ==
    LET network_error == rm.network # None /\ route.network # None /\ route.network # rm.network
        colour_warning == rm.colour # None /\ route.colour # None /\ route.colour # rm.colour
        infill_warning == rm.infill # None /\ route.infill # None /\ route.infill # rm.infill
        ref_warning == rm.ref # None /\ route.ref # rm.ref
        refused == rm.mode # None /\ route.mode # rm.mode
        named == [rm EXCEPT !.network = IF @ = None THEN route.network ELSE @,
                            !.colour = IF @ = None THEN route.colour ELSE @,
                            !.infill = IF @ = None THEN route.infill ELSE @,
                            !.ref = IF @ = None THEN route.ref ELSE @,
                            !.name = IF @ = None THEN route.name ELSE @,
                            !.mode = IF @ = None THEN route.mode ELSE @]
        taken == [named EXCEPT
                    !.interval = IF ~rm.interval_from_master /\ route.interval # 0
                                 THEN (IF @ = 0 \/ route.interval < @ THEN route.interval ELSE @)
                                 ELSE @,
                    !.id = IF ~rm.has_master /\ (@ = NoObject \/ IdGreater(@, route.id))
                           THEN route.id ELSE @,
                    !.routes = Append(@, route),
                    !.best = IF rm.best = NoObject \/ Len(rm.best.stops) = 0
                                \/ Len(route.stops) > Len(rm.best.stops)
                             THEN route ELSE @]
    IN [master |-> IF refused THEN named ELSE taken,
        errors |-> c.errors
                   \o (IF network_error THEN <<"Route has different network from master">> ELSE <<>>)
                   \o (IF refused THEN <<"Incompatible PT mode">> ELSE <<>>),
        warnings |-> c.warnings
                   \o (IF colour_warning THEN <<"Route has different colour from master">> ELSE <<>>)
                   \o (IF infill_warning THEN <<"Route has different infill colour from master">> ELSE <<>>)
                   \o (IF ref_warning THEN <<"Route has different ref from master">> ELSE <<>>)]

-----------------------------------------------------------------------------
(* subway_structure.py: City, Station and StopArea.  A city is a record; its  *)
(* dicts are functions, and the dicts that are walked are sequences in        *)
(* insertion order.  A member of a relation keeps its ref in the field id.    *)

MAX_DISTANCE_TO_ENTRANCES == 300

DEFAULT_MODES_RAPID == {"subway", "light_rail"}

RAILWAY_TYPES == {"rail", "light_rail", "subway", "narrow_gauge", "funicular", "monorail", "tram"}

\* d.get(k, default), and d[k] of a defaultdict
DictGet(d, k, default) == IF k \in DOMAIN d THEN d[k] ELSE default

\* City.__init__(row) of a city that is not overground and names no networks
City_init(row) ==
    [num_stations |-> row.num_stations, num_lines |-> row.num_lines,
     num_light_lines |-> row.num_light_lines, num_interchanges |-> row.num_interchanges,
     networks |-> {}, modes |-> DEFAULT_MODES_RAPID,
     errors |-> <<>>, warnings |-> <<>>,
     elements |-> <<>>, stations |-> EmptyDict, routes |-> <<>>, masters |-> EmptyDict,
     stop_areas |-> EmptyDict, transfers |-> <<>>, station_ids |-> {},
     stops_and_platforms |-> {}, objects |-> EmptyDict, raised |-> FALSE,
     found_stations |-> 0, found_interchanges |-> 0,
     unused_stations |-> 0, unused_listed |-> {}]

\* k in city.elements
HasElement(city, k) == \E i \in 1..Len(city.elements) : el_id(city.elements[i]) = k

\* city.elements[k]
Element(city, k) ==
    city.elements[CHOOSE i \in 1..Len(city.elements) : el_id(city.elements[i]) = k]

\* City.add(el), the members of a route_master from member i
RECURSIVE add_masters(_, _, _)
add_masters(city, el, i) ==
    IF i > Len(el.members) THEN city
    ELSE LET m == el.members[i]
             added == IF m.type # "relation" THEN city
                      ELSE [city EXCEPT
                              !.errors = IF el_id(m) \in DOMAIN city.masters
                                         THEN Append(@, "Route in two route_masters") ELSE @,
                              !.masters = DictPut(@, el_id(m), el)]
         IN add_masters(added, el, i + 1)

\* City.add(el), the members of a stop_area from member i
RECURSIVE add_stop_areas(_, _, _, _)
add_stop_areas(city, el, i, warned_about_duplicates) ==
    IF i > Len(el.members) THEN city
    ELSE LET k == el_id(el.members[i])
             stop_areas == DictGet(city.stop_areas, k, <<>>)
             duplicate == el \in Range(stop_areas)
             added == IF duplicate
                      THEN [city EXCEPT
                              !.warnings = IF warned_about_duplicates THEN @
                                           ELSE Append(@, "Duplicate element in a stop area")]
                      ELSE [city EXCEPT !.stop_areas = DictPut(@, k, Append(stop_areas, el))]
         IN add_stop_areas(added, el, i + 1, warned_about_duplicates \/ duplicate)

\* City.add(el); the ids of the elements of a snapshot are distinct
City_add(city, el) ==
    IF el.type = "relation" /\ "members" \notin DOMAIN el THEN city
    ELSE LET stored == [city EXCEPT !.elements = Append(@, el)]
         IN IF el.type = "relation" /\ TagGet(el, "type") = "route_master"
            THEN add_masters(stored, el, 1)
            ELSE IF el.type = "relation" /\ "tags" \in DOMAIN el
                    /\ TagGet(el, "public_transport") = "stop_area"
            THEN add_stop_areas(stored, el, 1, FALSE)
            ELSE stored

\* StopArea.is_stop(el)
is_stop(el) == TagGet(el, "railway") = "stop" \/ TagGet(el, "public_transport") = "stop_position"

\* StopArea.is_platform(el)
is_platform(el) ==
    TagGet(el, "railway") \in {"platform", "platform_edge"}
        \/ TagGet(el, "public_transport") = "platform"

\* StopArea.is_track(el)
is_track(el) == el.type = "way" /\ TagGet(el, "railway") \in RAILWAY_TYPES

\* Station.__init__(el, city) for an element without colour and int_name tags
Station_init(el) ==
    [id |-> el_id(el), modes |-> get_modes(el),
     name |-> IF TagGet(el, "name") = None THEN "?" ELSE TagGet(el, "name"),
     center |-> el_center(el)]

\* StopArea.__init__, `for m in stop_area['members']` from member i
RECURSIVE StopArea_members(_, _, _, _, _)
StopArea_members(station, city, stop_area, i, sa) ==
    IF i > Len(stop_area.members) THEN sa
    ELSE LET m == stop_area.members[i]
             k == el_id(m)
             taken(m_el) ==
                IF is_station(m_el, city.modes)
                THEN IF k # station.id
                     THEN [sa EXCEPT !.errors = Append(@, "Stop area has multiple stations")]
                     ELSE sa
                ELSE IF is_stop(m_el) THEN [sa EXCEPT !.stops = @ \cup {k}]
                ELSE IF is_platform(m_el) THEN [sa EXCEPT !.platforms = @ \cup {k}]
                ELSE IF TagGet(m_el, "railway") = "subway_entrance"
                THEN [sa EXCEPT
                        !.warnings = IF m_el.type # "node"
                                     THEN Append(@, "Subway entrance is not a node") ELSE @,
                        !.entrances = IF TagGet(m_el, "entrance") # "exit" /\ m.role # "exit_only"
                                      THEN @ \cup {k} ELSE @,
                        !.exits = IF TagGet(m_el, "entrance") # "entrance" /\ m.role # "entry_only"
                                  THEN @ \cup {k} ELSE @]
                ELSE IF is_track(m_el) /\ ~sa.warned_about_tracks
                THEN [sa EXCEPT !.errors = Append(@, "Tracks in a stop_area relation"),
                                !.warned_about_tracks = TRUE]
                ELSE sa
             after == IF HasElement(city, k) /\ "tags" \in DOMAIN Element(city, k)
                      THEN taken(Element(city, k)) ELSE sa
         IN StopArea_members(station, city, stop_area, i + 1, after)

\* StopArea.__init__, `for c_el in city.elements.values()` from element i
RECURSIVE StopArea_nearby(_, _, _, _)
StopArea_nearby(station, city, i, sa) ==
    IF i > Len(city.elements) THEN sa
    ELSE LET c_el == city.elements[i]
             c_id == el_id(c_el)
             etag == TagGet(c_el, "entrance")
             near == /\ TagGet(c_el, "railway") = "subway_entrance"
                     /\ c_id \notin DOMAIN city.stop_areas
                     /\ el_center(c_el) # <<>>
                     /\ ~distance_above(station.center, el_center(c_el),
                                        2 * MAX_DISTANCE_TO_ENTRANCES)
             after == IF near
                      THEN [sa EXCEPT
                              !.warnings = IF c_el.type # "node"
                                           THEN Append(@, "Subway entrance is not a node") ELSE @,
                              !.entrances = IF etag # "exit" THEN @ \cup {c_id} ELSE @,
                              !.exits = IF etag # "entrance" THEN @ \cup {c_id} ELSE @]
                      ELSE sa
         IN StopArea_nearby(station, city, i + 1, after)

\* A plausible slip: only the stop area with exits and no entrances reported.
unbalanced_exits_only(sa) ==
    IF sa.exits # {} /\ sa.entrances = {}
    THEN <<"Only exits for a station, no entrances">> ELSE <<>>

\* StopArea.__init__: the errors for exits without entrances and entrances without exits
unbalanced(sa) ==
    (IF sa.exits # {} /\ sa.entrances = {}
     THEN <<"Only exits for a station, no entrances">> ELSE <<>>)
    \o (IF sa.entrances # {} /\ sa.exits = {} THEN <<"No exits for a station">> ELSE <<>>)

\* The centre of a stop area: the mean of its stops and platforms (whole metres), else
\* the centre of the station
StopArea_center(station, city, sa) ==
    LET sps == SetToSeq(sa.stops \cup sa.platforms)
        RECURSIVE Sum(_, _)
        Sum(i, axis) == IF i > Len(sps) THEN 0
                        ELSE el_center(Element(city, sps[i]))[axis] + Sum(i + 1, axis)
    IN IF sps = <<>> THEN station.center
       ELSE <<Sum(1, 1) \div Len(sps), Sum(1, 2) \div Len(sps)>>

\* StopArea.__init__(station, city, stop_area): the StopArea and the errors and
\* warnings of the city; stop_area is NoObject for a station without a relation
StopArea_init(station, city, stop_area) ==
    LET empty == [stops |-> {}, platforms |-> {}, entrances |-> {}, exits |-> {},
                  errors |-> city.errors, warnings |-> city.warnings,
                  warned_about_tracks |-> FALSE]
        made(sa) ==
            [stoparea |->
                [id |-> IF stop_area # NoObject THEN el_id(stop_area) ELSE station.id,
                 station |-> station,
                 stops |-> sa.stops, platforms |-> sa.platforms,
                 exits |-> sa.exits, entrances |-> sa.entrances,
                 center |-> StopArea_center(station, city, sa),
                 transfer |-> NoObject,
                 name |-> IF stop_area # NoObject /\ TagGet(stop_area, "name") # None
                          THEN TagGet(stop_area, "name") ELSE station.name],
             errors |-> sa.errors \o unbalanced(sa),
             warnings |-> sa.warnings]
    IN made(IF stop_area # NoObject THEN StopArea_members(station, city, stop_area, 1, empty)
            ELSE StopArea_nearby(station, city, 1, empty))

\* StopArea.get_elements()
get_elements(sa) == {sa.id, sa.station.id} \cup sa.entrances \cup sa.exits \cup sa.stops \cup sa.platforms

-----------------------------------------------------------------------------
(* The snapshots the runs are fed: three stations, three stop areas, two cities *)

\* The largest numeric OSM id uid() is called on
MaxOsmId == 12

\* The number of runs of the export in one behaviour of SpecProcess
MaxRuns == 2

\* The number of runs of the export in one behaviour of SpecRerun
MaxReruns == 4

\* Where station n2 can lie (lon, metres)
Positions == {0, 300, 301}

StationTags == [railway |-> "station", station |-> "subway"]

ElN1 == [type |-> "node", id |-> 1, tags |-> StationTags, lon |-> 0, lat |-> 0]

ElN2(pos) == [type |-> "node", id |-> 2, tags |-> StationTags, lon |-> 2000 + pos, lat |-> 0]

ElW3(st3) ==
    [type |-> "way", id |-> 3,
     tags |-> IF st3 = "station" THEN StationTags
              ELSE [railway |-> "station", station |-> "subway", construction |-> "yes"],
     center |-> [lon |-> 4000, lat |-> 0]]

\* city.elements of a snapshot: el_id -> element
Elements(w) ==
    LET els == {ElN1, ElN2(w.pos)} \cup (IF w.st3 = "missing" THEN {} ELSE {ElW3(w.st3)})
    IN [k \in {el_id(e) : e \in els} |-> CHOOSE e \in els : el_id(e) = k]

\* The StopArea objects: SA1 is the bare station n1, SA2 and SA3 are stop_area relations
SA1 == [id |-> el_id(ElN1), station |-> [id |-> el_id(ElN1)], center |-> <<0, 0>>]

SA2(w) == [id |-> el_id([type |-> "relation", id |-> 10]), station |-> [id |-> el_id(ElN2(w.pos))],
           center |-> <<2000 + w.pos, 0>>]

SA3 == [id |-> el_id([type |-> "relation", id |-> 11]), station |-> [id |-> el_id(ElW3("station"))],
        center |-> <<4000, 0>>]

\* A route variant over the given stop areas; distances run along the centres
RECURSIVE CumDistances(_, _)
CumDistances(sas, i) ==
    IF i = 1 THEN 0 ELSE CumDistances(sas, i - 1) + distance(sas[i].center, sas[i - 1].center)

Variant(sas) == [stops |-> [i \in 1..Len(sas) |-> [stoparea |-> sas[i], distance |-> CumDistances(sas, i)]],
                 interval |-> 0]

Master(n, sas) == [id |-> el_id([type |-> "relation", id |-> n]), mode |-> "subway", ref |-> str(n),
                   routes |-> <<Variant(sas), Variant(Reverse(sas))>>]

Errors(good) == IF good THEN <<>> ELSE <<"error">>

CityA(w) ==
    [name |-> "A", id |-> 1, errors |-> Errors(w.goodA), modes |-> {"subway", "light_rail"},
     elements |-> Elements(w),
     routes |-> <<Master(7, <<SA1, SA2(w)>>)>>]

\* City B shares SA1 and SA2 with city A; its line goes on to SA3 while w3 is a station
CityB(w) ==
    [name |-> "B", id |-> 2, errors |-> Errors(w.goodB), modes |-> {"subway", "light_rail"},
     elements |-> Elements(w),
     routes |-> IF w.st3 = "station" THEN <<Master(12, <<SA1, SA2(w), SA3>>)>>
                ELSE <<Master(12, <<SA1, SA2(w)>>)>>]

\* The transfer sets find_transfers hands over.  tr = 1: two stop_area_group
\* relations, SA1 and SA2 in both; tr = 2: one group of SA2 and SA3
TransferSets(w) ==
    IF w.tr = 1
    THEN <<{SA1, SA2(w)}, {SA1, SA2(w)} \cup (IF w.st3 = "station" THEN {SA3} ELSE {})>>
    ELSE IF w.st3 = "station" THEN <<{SA2(w), SA3}>> ELSE <<>>

AllWorlds ==
    [pos : Positions, st3 : {"station", "missing", "construction"}, goodA : BOOLEAN,
     goodB : BOOLEAN, tr : {1, 2}, cache_path : {"cache.json", None}]

\* The snapshots of SpecProcess: with w3 under construction city B is not good; with
\* w3 deleted it is good only because its line was cut back to SA2
Worlds ==
    {w \in AllWorlds :
        /\ (w.st3 # "station" => w.pos = 0 /\ w.tr = 1)
        /\ (w.st3 = "construction" => ~w.goodB)
        /\ (w.cache_path = None => w.pos = 0 /\ w.st3 = "station" /\ w.tr = 1 /\ w.goodA)}

\* The snapshots of SpecRerun: every station stays.  n2 is moved, within the
\* tolerance, in one snapshot, where only city A is good; the transfer groups are
\* regrouped in one snapshot, where neither city is good
RerunWorlds ==
    {w \in AllWorlds :
        /\ w.st3 = "station" /\ w.pos # 301 /\ w.cache_path # None
        /\ (w.pos = 300 => w.goodA /\ ~w.goodB)
        /\ (w.tr = 2 => w.pos = 0 /\ ~w.goodA /\ ~w.goodB)}

Cities(w) == <<CityA(w), CityB(w)>>

\* Every way of listing each set of ts
RECURSIVE ListOrders(_)
ListOrders(ts) ==
    IF ts = <<>> THEN {<<>>}
    ELSE {<<h>> \o t : h \in Orders(Head(ts)), t \in ListOrders(Tail(ts))}

\* The orders in which a set of city names can be walked; with fewer than two
\* cities to adopt there is one walk
WalkOrders(cities) ==
    LET names == {cities[i].name : i \in 1..Len(cities)}
        bad == {cities[i].name : i \in {j \in 1..Len(cities) : ~is_good(cities[j])}}
    IN IF Cardinality(bad) < 2 THEN {SetToSeq(names)} ELSE Orders(names)

NoExport == [stops |-> <<>>, transfers |-> <<>>, networks |-> <<>>]

NoFile == [exists |-> FALSE, content |-> EmptyDict]

-----------------------------------------------------------------------------
(* Specification of uid(): two composite ids and the optional type *)

ElIds == {[t |-> t, ds |-> str(n)] : t \in {"n", "w", "r"}, n \in 0..MaxOsmId}

ProcIdle ==
    /\ cache_file = NoFile /\ inp = <<>> /\ result = NoExport /\ loaded = EmptyDict
    /\ recovered = {} /\ again = FALSE /\ runs = 0 /\ pc = "idle"

UidIdle ==
    /\ ua = <<>> /\ ub = <<>> /\ utyp = None /\ ures_a = 0 /\ ures_b = 0 /\ upc = "idle"

RouteIdle ==
    /\ cur_route = <<>> /\ recovery_data = <<>> /\ stop_sequence = <<>> /\ walk = <<>>
    /\ disorder = <<>> /\ itin = <<>> /\ rpc = "idle"

DriverIdle ==
    /\ dpc = "idle" /\ dcity = 0 /\ derrors = <<>> /\ good_cities = <<>> /\ prev = <<>>

CityIdle == given = <<>> /\ built = <<>> /\ cpc = "idle"

InitUid ==
    /\ ua \in ElIds /\ ub \in ElIds /\ utyp \in {None, "n", "w", "r"}
    /\ ures_a = 0 /\ ures_b = 0 /\ upc = "start"
    /\ ProcIdle /\ RouteIdle /\ DriverIdle /\ CityIdle

CallUidA ==
    /\ upc = "start"
    /\ ures_a' = uid(ua, utyp)
    /\ upc' = "a"
    /\ UNCHANGED <<city_vars, ua, ub, utyp, ures_b, proc_vars, route_vars, drv_vars>>

CallUidB ==
    /\ upc = "a"
    /\ ures_b' = uid(ub, utyp)
    /\ upc' = "done"
    /\ UNCHANGED <<city_vars, ua, ub, utyp, ures_a, proc_vars, route_vars, drv_vars>>

NextUid == CallUidA \/ CallUidB

SpecUid == InitUid /\ [][NextUid]_vars

-----------------------------------------------------------------------------
(* Specification of process(): run after run on changing snapshots, each run
   starting from the cache file the run before saved *)

InitProcess ==
    /\ cache_file = NoFile
    /\ inp \in Worlds
    /\ result = NoExport /\ loaded = EmptyDict /\ recovered = {}
    /\ again = FALSE /\ runs = 0 /\ pc = "ready"
    /\ UidIdle /\ RouteIdle /\ DriverIdle /\ CityIdle

\* process(cities, transfers, cache_path) called on every city of the snapshot
Process ==
    /\ pc = "ready"
    /\ \E ts \in ListOrders(TransferSets(inp)), names \in WalkOrders(Cities(inp)) :
          LET out == process(Cities(inp), ts, inp.cache_path, cache_file, names)
          IN /\ result' = out.result
             /\ cache_file' = out.file
             /\ loaded' = out.loaded
             /\ recovered' = out.recovered
    /\ pc' = "done"
    /\ runs' = runs + 1
    /\ UNCHANGED <<city_vars, inp, again, uid_vars, route_vars, drv_vars>>

\* The map data changed before the next run; the export of the last run is history
NewSnapshot ==
    /\ pc = "done" /\ runs < MaxRuns
    /\ inp' \in Worlds \ {inp}
    /\ again' = FALSE
    /\ result' = NoExport /\ loaded' = EmptyDict /\ recovered' = {}
    /\ pc' = "ready"
    /\ UNCHANGED <<city_vars, cache_file, runs, uid_vars, route_vars, drv_vars>>

\* The next run is given the very same input
SameSnapshot ==
    /\ pc = "done" /\ runs < MaxRuns
    /\ again' = TRUE
    /\ pc' = "ready"
    /\ UNCHANGED <<city_vars, cache_file, inp, result, loaded, recovered, runs, uid_vars, route_vars, drv_vars>>

NextProcess == Process \/ NewSnapshot \/ SameSnapshot

SpecProcess == InitProcess /\ [][NextProcess]_vars

-----------------------------------------------------------------------------
(* Specification of repeated runs: longer histories over the snapshots in which
   every station stays in place or moves within the tolerance *)

InitRerun ==
    /\ cache_file = NoFile
    /\ inp \in RerunWorlds
    /\ result = NoExport /\ loaded = EmptyDict /\ recovered = {}
    /\ again = FALSE /\ runs = 0 /\ pc = "ready"
    /\ UidIdle /\ RouteIdle /\ DriverIdle /\ CityIdle

\* The map data changed before the next run
ChangedSnapshot ==
    /\ pc = "done" /\ runs < MaxReruns - 1
    /\ inp' \in RerunWorlds \ {inp}
    /\ again' = FALSE
    /\ result' = NoExport /\ loaded' = EmptyDict /\ recovered' = {}
    /\ pc' = "ready"
    /\ UNCHANGED <<city_vars, cache_file, runs, uid_vars, route_vars, drv_vars>>

\* The run is repeated on the very same input
Rerun ==
    /\ pc = "done" /\ runs < MaxReruns /\ ~again
    /\ again' = TRUE
    /\ pc' = "ready"
    /\ UNCHANGED <<city_vars, cache_file, inp, result, loaded, recovered, runs, uid_vars, route_vars, drv_vars>>

NextRerun == Process \/ ChangedSnapshot \/ Rerun

SpecRerun == InitRerun /\ [][NextRerun]_vars

-----------------------------------------------------------------------------
(* Building one route: Route.__init__ from the projection of the stops on *)
(* the tracks to the distances, then its itinerary in the export          *)

\* The largest number of stops of a route
MaxStops == 4

StopArea(n, name, center) ==
    [id |-> el_id([type |-> "node", id |-> n]), name |-> name, center |-> center]

\* The stop areas the routes are drawn over (metres on a plane)
StopPool ==
    << StopArea(21, "a", <<0, 0>>),
       StopArea(22, "d", <<1000, 500>>),
       StopArea(23, "e", <<500, 1000>>),
       StopArea(24, "b", <<1500, 50>>),
       StopArea(25, "c", <<2500, 0>>) >>

\* No tracks, a straight line, a line with a detour, a closed ring
TrackLayouts ==
    { <<>>,
      << <<0, 0>>, <<1000, 0>>, <<2000, 0>>, <<3000, 0>> >>,
      << <<0, 0>>, <<1000, 0>>, <<1000, 3000>>, <<2000, 3000>>, <<2000, 0>>, <<3000, 0>> >>,
      << <<0, 0>>, <<1000, 0>>, <<1000, 1000>>, <<0, 1000>>, <<0, 0>> >> }

\* The orders of stops of a route: no stop area twice in a row
StopOrders ==
    UNION {{q \in [1..n -> 1..Len(StopPool)] : \A i \in 1..(n - 1) : q[i] # q[i + 1]} : n \in 1..MaxStops}

\* RouteStop(stoparea) after RouteStop.add of the station of the stop area
RouteStop(stoparea) ==
    [stoparea |-> stoparea, stop |-> stoparea.center, positions_on_rails |-> <<>>, distance |-> 0]

\* The route before the stops are projected
NewRoute(q, tracks) ==
    [id |-> el_id([type |-> "relation", id |-> 30]),
     stops |-> [i \in 1..Len(q) |-> RouteStop(StopPool[q[i]])],
     tracks |-> tracks, is_circular |-> FALSE, interval |-> 0,
     from_tag |-> None, to_tag |-> None,
     errors |-> <<>>, warnings |-> <<>>]

\* An itinerary of the recovery data over the given stops of the pool, each
\* moved by `moved` metres
RecoveryItinerary(order, moved) ==
    [stations |-> [k \in 1..Len(order) |->
                      [name |-> StopPool[order[k]].name,
                       center |-> <<StopPool[order[k]].center[1] + moved, StopPool[order[k]].center[2]>>]],
     from |-> None, to |-> None]

\* city.recovery_data[route_id] for a route over the stops q: nothing, the stops
\* in the order of the pool, in the opposite order, both, or too far away
RecoveryOptions(q) ==
    LET asc == Ascending(Range(q))
    IN { <<>>,
         <<RecoveryItinerary(asc, 0)>>,
         <<RecoveryItinerary(Reverse(asc), DISPLACEMENT_TOLERANCE)>>,
         <<RecoveryItinerary(asc, 0), RecoveryItinerary(Reverse(asc), 0)>>,
         <<RecoveryItinerary(asc, DISPLACEMENT_TOLERANCE + 1)>> }

InitRoute ==
    /\ \E q \in StopOrders, tracks \in TrackLayouts :
          /\ cur_route = NewRoute(q, tracks)
          /\ recovery_data \in RecoveryOptions(q)
    /\ stop_sequence = <<>> /\ walk = <<>> /\ disorder = <<>> /\ itin = <<>>
    /\ rpc = "new"
    /\ UidIdle /\ ProcIdle /\ DriverIdle /\ CityIdle

\* Route.__init__, lines 797-803: a route of less than two stops gets an error,
\* else is_circular is set and the stops are projected on the tracks
ProjectStops ==
    /\ rpc = "new"
    /\ LET n == Len(cur_route.stops)
           is_circular == cur_route.stops[1].stoparea = cur_route.stops[n].stoparea
           p == project_stops_on_line([cur_route EXCEPT !.is_circular = is_circular])
       IN IF n = 1
          THEN /\ cur_route' = [cur_route EXCEPT !.errors = Append(@, "Route has only one stop")]
               /\ rpc' = "built"
               /\ UNCHANGED <<stop_sequence, walk>>
          ELSE /\ cur_route' = p.route
               /\ stop_sequence' = p.stops_on_longest_line
               /\ walk' = [pass |-> "direct", direct_error |-> None,
                           w |-> walk_start(is_circular, p.stops_on_longest_line)]
               /\ rpc' = "walk"
    /\ UNCHANGED <<city_vars, recovery_data, disorder, itin, uid_vars, proc_vars, drv_vars>>

\* check_stops_order_on_tracks_direct: the next stop of the sequence
WalkStep ==
    /\ rpc = "walk"
    /\ walk.w.error = None
    /\ walk.w.i <= Len(walk.w.seq)
    /\ walk' = [walk EXCEPT !.w = walk_step(@, cur_route.stops[walk.w.seq[walk.w.i]].positions_on_rails)]
    /\ UNCHANGED <<city_vars, cur_route, recovery_data, stop_sequence, disorder, itin, rpc,
                   uid_vars, proc_vars, drv_vars>>

WalkEnded == walk.w.error # None \/ walk.w.i > Len(walk.w.seq)

\* check_stops_order_on_tracks: the direct order gave an error, try the reversed one
WalkReversed ==
    /\ rpc = "walk"
    /\ WalkEnded
    /\ walk.pass = "direct" /\ walk.w.error # None
    /\ walk' = [pass |-> "reversed", direct_error |-> walk.w.error,
                w |-> walk_start(cur_route.is_circular, Reverse(stop_sequence))]
    /\ UNCHANGED <<city_vars, cur_route, recovery_data, stop_sequence, disorder, itin, rpc,
                   uid_vars, proc_vars, drv_vars>>

\* check_stops_order_on_tracks returns, and check_stops_order adds the angles
WalkReturn ==
    /\ rpc = "walk"
    /\ WalkEnded
    /\ ~(walk.pass = "direct" /\ walk.w.error # None)
    /\ LET opposite == walk.pass = "reversed" /\ walk.w.error = None
           disorder_on_tracks_error ==
               IF walk.pass = "reversed" /\ walk.w.error # None THEN walk.direct_error ELSE None
           angles == check_stops_order_by_angle(cur_route.stops)
       IN /\ cur_route' = IF opposite
                          THEN [cur_route EXCEPT !.warnings =
                                   Append(@, "Tracks seem to go in the opposite direction to stops")]
                          ELSE cur_route
          /\ disorder' = [warnings |-> angles.warnings,
                          errors |-> IF disorder_on_tracks_error # None
                                     THEN Append(angles.errors, disorder_on_tracks_error)
                                     ELSE angles.errors]
    /\ rpc' = "checked"
    /\ UNCHANGED <<city_vars, recovery_data, stop_sequence, walk, itin, uid_vars, proc_vars, drv_vars>>

\* check_and_recover_stops_order after check_stops_order
RecoverOrder ==
    /\ rpc = "checked"
    /\ cur_route' = check_and_recover_stops_order(cur_route, recovery_data, disorder)
    /\ rpc' = "ordered"
    /\ UNCHANGED <<city_vars, recovery_data, stop_sequence, walk, disorder, itin,
                   uid_vars, proc_vars, drv_vars>>

\* Route.calculate_distances
CalculateDistances ==
    /\ rpc = "ordered"
    /\ cur_route' = [cur_route EXCEPT !.stops = calculate_distances(@, cur_route.tracks)]
    /\ rpc' = "built"
    /\ UNCHANGED <<city_vars, recovery_data, stop_sequence, walk, disorder, itin,
                   uid_vars, proc_vars, drv_vars>>

\* process: the itinerary of the route, which is exported with a good city only,
\* that is one none of whose routes has an error
EmitItinerary ==
    /\ rpc = "built"
    /\ cur_route.errors = <<>>
    /\ itin' = Itinerary(cur_route)
    /\ rpc' = "done"
    /\ UNCHANGED <<city_vars, cur_route, recovery_data, stop_sequence, walk, disorder,
                   uid_vars, proc_vars, drv_vars>>

NextRoute ==
    \/ ProjectStops \/ WalkStep \/ WalkReversed \/ WalkReturn
    \/ RecoverOrder \/ CalculateDistances \/ EmitItinerary

SpecRoute == InitRoute /\ [][NextRoute]_vars

-----------------------------------------------------------------------------
(* Projecting the stops of a route on a straight line or a ring, with stops at *)
(* and around MAX_DISTANCE_STOP_TO_LINE from the tracks                      *)

\* Stop areas on the tracks, 50, 51 and 120 m beside them, 50.01 m past their
\* end, and nowhere near them
NearStopPool ==
    << StopArea(21, "a", <<0, 0>>),
       StopArea(22, "g", <<1000, 51>>),
       StopArea(23, "h", <<3010, 49>>),
       StopArea(24, "b", <<1500, 50>>),
       StopArea(25, "k", <<2000, 120>>),
       StopArea(26, "z", <<500, 1000>>) >>

NearStopOrders ==
    UNION {{q \in [1..n -> 1..Len(NearStopPool)] : \A i \in 1..(n - 1) : q[i] # q[i + 1]} :
              n \in 2..MaxStops}

InitProject ==
    /\ \E q \in NearStopOrders, tracks \in TrackLayouts :
          /\ Len(tracks) \in {4, 5}
          /\ cur_route = [NewRoute(<<>>, tracks) EXCEPT
                            !.stops = [i \in 1..Len(q) |-> RouteStop(NearStopPool[q[i]])]]
    /\ recovery_data = <<>>
    /\ stop_sequence = <<>> /\ walk = <<>> /\ disorder = <<>> /\ itin = <<>>
    /\ rpc = "new"
    /\ UidIdle /\ ProcIdle /\ DriverIdle /\ CityIdle

NextProject == ProjectStops

SpecProject == InitProject /\ [][NextProject]_vars

-----------------------------------------------------------------------------
(* process_subways.py: the runs of the driver over the cities of a snapshot, *)
(* each run ending with the export of processors/mapsme.py                  *)

\* The number of runs of the driver in one behaviour of SpecPipeline
MaxPipelineRuns == 2

CriticalError == "stop or platform for route relation is not in the dataset"

\* 'inactive' in m['role']
IsInactiveRole(role) == role \in {"inactive"}

\* 'stop' in m['role'] or 'platform' in m['role']
IsStopOrPlatformRole(role) ==
    role \in {"stop", "stop_entry_only", "stop_exit_only",
              "platform", "platform_entry_only", "platform_exit_only"}

\* A member of a route relation that no element of the snapshot matches: none,
\* or one in a route of the named city with the given role
MissingMembers ==
    { [city |-> None, role |-> ""],
      [city |-> "A", role |-> "stop"],
      [city |-> "B", role |-> "platform_exit_only"],
      [city |-> "A", role |-> ""],
      [city |-> "B", role |-> "inactive"] }

\* The snapshots of SpecPipeline: every station stays and n2 moves within the
\* tolerance; goodA and goodB give what City.validate finds
PipelineWorlds ==
    {w \in [pos : {0, DISPLACEMENT_TOLERANCE}, st3 : {"station"}, goodA : BOOLEAN, goodB : BOOLEAN,
            tr : {1}, cache_path : {"cache.json"}, missing : MissingMembers] : TRUE}

\* relation['members'] of the route of a city: its stations, then the missing
\* member (its ref is kept in the field id)
RouteMembers(w, city) ==
    LET sas == city.routes[1].routes[1].stops
        present == [j \in 1..Len(sas) |->
                       [type |-> OSM_TYPES[sas[j].stoparea.station.id.t][2],
                        id |-> int(sas[j].stoparea.station.id.ds), role |-> "stop"]]
    IN IF w.missing.city = city.name
       THEN Append(present, [type |-> "node", id |-> 9, role |-> w.missing.role])
       ELSE present

\* The member loop of Route.__init__ from member i: the errors recorded on the
\* city, and whether CriticalValidationError was raised
RECURSIVE RouteMembersLoop(_, _, _, _)
RouteMembersLoop(city, members, i, errors) ==
    IF i > Len(members) THEN [errors |-> errors, raised |-> FALSE]
    ELSE LET m == members[i]
             k == el_id(m)
         IN IF IsInactiveRole(m.role) THEN RouteMembersLoop(city, members, i + 1, errors)
            ELSE IF k \notin DOMAIN city.elements
            THEN IF IsStopOrPlatformRole(m.role)
                 THEN [errors |-> Append(errors, CriticalError), raised |-> TRUE]
                 ELSE RouteMembersLoop(city, members, i + 1, errors)
            ELSE RouteMembersLoop(city, members, i + 1, errors)

\* City.extract_routes: nothing catches what Route.__init__ raises
extract_routes(city, members) == RouteMembersLoop(city, members, 1, <<>>)

\* City.validate: the errors it adds are given by the snapshot
validate(city, w) == IF city.name = "A" THEN Errors(w.goodA) ELSE Errors(w.goodB)

NoRun == [good |-> {}, cache |-> NoFile, ended |-> None]

InitPipeline ==
    /\ cache_file = NoFile
    /\ inp \in PipelineWorlds
    /\ result = NoExport /\ loaded = EmptyDict /\ recovered = {}
    /\ again = FALSE /\ runs = 1 /\ pc = "idle"
    /\ dpc = "cities" /\ dcity = 1 /\ derrors = <<>> /\ good_cities = <<>>
    /\ prev = NoRun
    /\ UidIdle /\ RouteIdle /\ CityIdle

\* One turn of `for c in cities`: c.extract_routes(), c.validate() and
\* good_cities.append(c); the exception of extract_routes ends the run
ExtractCity ==
    /\ dpc = "cities"
    /\ dcity <= Len(Cities(inp))
    /\ LET c == [Cities(inp)[dcity] EXCEPT !.errors = <<>>]
           extracted == extract_routes(c, RouteMembers(inp, c))
           errors == extracted.errors \o validate(c, inp)
       IN IF extracted.raised
          THEN /\ derrors' = Append(derrors, extracted.errors)
               /\ dpc' = "aborted"
               /\ UNCHANGED <<dcity, good_cities>>
          ELSE /\ derrors' = Append(derrors, errors)
               /\ good_cities' = IF errors = <<>> THEN Append(good_cities, dcity) ELSE good_cities
               /\ dcity' = dcity + 1
               /\ dpc' = IF dcity = Len(Cities(inp)) THEN "export" ELSE "cities"
    /\ UNCHANGED <<city_vars, prev, proc_vars, uid_vars, route_vars>>

\* find_transfers, then json.dump(processor.process(good_cities, transfers, options.cache))
Export ==
    /\ dpc = "export"
    /\ LET cities == [i \in 1..Len(good_cities) |->
                         [Cities(inp)[good_cities[i]] EXCEPT !.errors = derrors[good_cities[i]]]]
       IN \E ts \in ListOrders(TransferSets(inp)), names \in WalkOrders(cities) :
             LET out == process(cities, ts, inp.cache_path, cache_file, names)
             IN /\ result' = out.result
                /\ cache_file' = out.file
                /\ loaded' = out.loaded
                /\ recovered' = out.recovered
    /\ dpc' = "done"
    /\ UNCHANGED <<city_vars, inp, again, runs, pc, dcity, derrors, good_cities, prev, uid_vars, route_vars>>

\* The next run of the driver, on a new snapshot and with the cache file left by the runs before
NextRun ==
    /\ dpc \in {"done", "aborted"}
    /\ runs < MaxPipelineRuns
    /\ prev' = [good |-> {Cities(inp)[i].name : i \in Range(good_cities)},
                cache |-> cache_file, ended |-> dpc]
    /\ inp' \in PipelineWorlds
    /\ result' = NoExport /\ loaded' = EmptyDict /\ recovered' = {}
    /\ runs' = runs + 1
    /\ dpc' = "cities" /\ dcity' = 1 /\ derrors' = <<>> /\ good_cities' = <<>>
    /\ UNCHANGED <<city_vars, cache_file, again, pc, uid_vars, route_vars>>

NextPipeline == ExtractCity \/ Export \/ NextRun

SpecPipeline == InitPipeline /\ [][NextPipeline]_vars

-----------------------------------------------------------------------------
(* Specification of Station.is_station: one tagged element and the modes of a city *)

\* The tags given as a set of <<key, value>> pairs, one value to a key
Tags(pairs) == [k \in {kv[1] : kv \in pairs} |-> (CHOOSE kv \in pairs : kv[1] = k)[2]]

\* Elements with and without a railway tag, a construction or proposed key, a
\* station=* tag and a mode=yes tag, and one element without tags
TaggedElements ==
    {[type |-> "node", id |-> 1]}
    \cup {[type |-> "node", id |-> 1, tags |-> Tags(r \cup k \cup st \cup m)] :
            r \in {{}, {<<"railway", "station">>}, {<<"railway", "halt">>},
                   {<<"railway", "tram_stop">>}, {<<"railway", "platform">>}},
            k \in {{}, {<<"construction", "yes">>}, {<<"proposed:railway", "station">>}},
            st \in {{}, {<<"station", "subway">>}, {<<"station", "train">>},
                    {<<"station", "light_rail">>}},
            m \in {{}, {<<"subway", "yes">>}, {<<"tram", "yes">>}, {<<"tram", "no">>}}}

\* DEFAULT_MODES_RAPID, DEFAULT_MODES_OVERGROUND, and modes given in the networks column
CityModes ==
    { {"subway", "light_rail"}, {"tram", "bus", "trolleybus", "aerialway", "ferry"},
      {"subway", "train"}, {"tram"}, {"light_rail"} }

InitStation ==
    /\ given \in [el : TaggedElements, modes : CityModes]
    /\ built = <<>> /\ cpc = "start"
    /\ UidIdle /\ ProcIdle /\ RouteIdle /\ DriverIdle

\* Station.is_station(el, modes)
IsStation ==
    /\ cpc = "start"
    /\ built' = [is_station |-> is_station(given.el, given.modes)]
    /\ cpc' = "done"
    /\ UNCHANGED <<given, uid_vars, proc_vars, route_vars, drv_vars>>

NextStation == IsStation

SpecStation == InitStation /\ [][NextStation]_vars

-----------------------------------------------------------------------------
(* subway_structure.py: City.extract_routes.  StopArea objects are shared by   *)
(* city.stations, the route stops and the transfers, so the city keeps them in *)
(* city.objects by id, and the other fields hold the ids.                      *)

\* [StopArea(st, self, sa) for sa in self.stop_areas[st.id]] from relation i
RECURSIVE StopAreas_of_relations(_, _, _, _, _)
StopAreas_of_relations(st, city, sas, i, stations) ==
    IF i > Len(sas) THEN [city |-> city, stations |-> stations]
    ELSE LET next(made) ==
                StopAreas_of_relations(st, [city EXCEPT !.errors = made.errors,
                                                        !.warnings = made.warnings],
                                       sas, i + 1, Append(stations, made.stoparea))
         IN next(StopArea_init(st, city, sas[i]))

\* self.stations[st_el].append(station) for st_el in station.get_elements()
register_elements(stations, station) ==
    [k \in DOMAIN stations \cup get_elements(station) |->
        IF k \in get_elements(station) THEN Append(DictGet(stations, k, <<>>), station.id)
        ELSE stations[k]]

\* `for station in stations` of City.extract_routes from station i
RECURSIVE register_stations(_, _, _, _)
register_stations(city, processed_stop_areas, stations, i) ==
    IF i > Len(stations) THEN [city |-> city, processed |-> processed_stop_areas]
    ELSE LET station == stations[i]
             sps == station.stops \cup station.platforms
             shared == sps \cap city.stops_and_platforms
             registered ==
                [city EXCEPT
                    !.objects = DictPut(@, station.id, station),
                    !.stations = register_elements(@, station),
                    !.warnings = @ \o [j \in 1..Cardinality(shared) |->
                        "A stop or a platform belongs to multiple stations, might be correct"],
                    !.stops_and_platforms = @ \cup sps]
         IN IF station.id \in processed_stop_areas
            THEN register_stations(city, processed_stop_areas, stations, i + 1)
            ELSE register_stations(registered, processed_stop_areas \cup {station.id},
                                   stations, i + 1)

\* City.extract_routes, "Extract stations", from element i
RECURSIVE extract_stations(_, _, _)
extract_stations(city, processed_stop_areas, i) ==
    IF i > Len(city.elements) THEN city
    ELSE LET el == city.elements[i]
             next(after) == extract_stations(after.city, after.processed, i + 1)
             alone(known, made) ==
                [city |-> [known EXCEPT !.errors = made.errors, !.warnings = made.warnings],
                 stations |-> <<made.stoparea>>]
             stations_of(st, known) ==
                IF st.id \in DOMAIN city.stop_areas
                THEN StopAreas_of_relations(st, known, city.stop_areas[st.id], 1, <<>>)
                ELSE alone(known, StopArea_init(st, known, NoObject))
             registered(made) ==
                next(register_stations(made.city, processed_stop_areas, made.stations, 1))
             extracted(st) ==
                registered(stations_of(st, [city EXCEPT !.station_ids = @ \cup {st.id}]))
         IN IF ~is_station(el, city.modes)
            THEN extract_stations(city, processed_stop_areas, i + 1)
            ELSE IF el.type = "relation" /\ TagGet(el, "type") # "multipolygon"
            THEN extract_stations(
                    [city EXCEPT !.errors = Append(@, "A railway station cannot be a relation")],
                    processed_stop_areas, i + 1)
            ELSE extracted(Station_init(el))

\* Route.is_route(el, modes)
is_route(el, modes) ==
    /\ el.type = "relation" /\ TagGet(el, "type") = "route"
    /\ "members" \in DOMAIN el
    /\ TagGet(el, "route") \in modes
    /\ \A k \in CONSTRUCTION_KEYS : k \notin DOMAIN el.tags
    /\ ("ref" \in DOMAIN el.tags \/ "name" \in DOMAIN el.tags)

\* RouteStop.get_actual_role(el, role, modes); a platform role is one of RolesOfPlatforms
RolesOfPlatforms == {"platform", "platform_entry_only", "platform_exit_only"}

get_actual_role(el, role, modes) ==
    IF is_stop(el) THEN "stop"
    ELSE IF is_platform(el) THEN "platform"
    ELSE IF is_station(el, modes)
    THEN (IF role \in RolesOfPlatforms THEN "platform" ELSE "stop")
    ELSE None

\* Route.__init__, `for m in relation['members']` from member i, for members that
\* are stations in a stop role or no role: seen_platforms stays False and
\* repeat_pos None, so a station met again later is the stop of a circular route.
\* r holds the stops, the errors and warnings of the city, and raised.
RECURSIVE Route_members(_, _, _, _)
Route_members(relation, city, i, r) ==
    IF i > Len(relation.members) \/ r.raised THEN r
    ELSE LET m == relation.members[i]
             k == el_id(m)
             role_of_stop == IsStopOrPlatformRole(m.role) /\ m.role \notin RolesOfPlatforms
             st_list == DictGet(city.stations, k, <<>>)
             known == [r EXCEPT
                        !.errors = IF Len(st_list) > 1
                                   THEN Append(@, "Ambiguous station in route") ELSE @]
             stopped(el) ==
                [known EXCEPT
                    !.warnings =
                        @ \o (IF m.role # "" /\ ~role_of_stop THEN <<"Wrong role">> ELSE <<>>)
                          \o (IF el.type # "node" THEN <<"Station in route is not a node">>
                              ELSE <<>>),
                    !.stops = IF @ # <<>> /\ @[Len(@)].stoparea = st_list[1] THEN @
                              ELSE Append(@, [stoparea |-> st_list[1], stop |-> el_center(el)])]
             other(el) ==
                IF "tags" \notin DOMAIN el
                THEN [known EXCEPT !.errors = Append(@, "Untagged object in a route")]
                ELSE IF \E ck \in CONSTRUCTION_KEYS : ck \in DOMAIN el.tags
                THEN [known EXCEPT !.errors = Append(@, "An under construction feature in route")]
                ELSE IF is_station(el, city.modes) THEN known
                ELSE IF TagGet(el, "railway") \in {"station", "halt"}
                THEN [known EXCEPT !.errors = Append(@, "Missing station=mode")]
                ELSE IF get_actual_role(el, m.role, city.modes) # None
                THEN [known EXCEPT
                        !.errors = Append(@, "Stop or platform is not connected to a station in route")]
                ELSE IF ~is_track(el)
                THEN [known EXCEPT !.errors = Append(@, "Unknown member type in route")]
                ELSE known
             after ==
                IF IsInactiveRole(m.role) THEN r
                ELSE IF ~HasElement(city, k)
                THEN (IF IsStopOrPlatformRole(m.role)
                      THEN [r EXCEPT !.errors = Append(@, CriticalError), !.raised = TRUE]
                      ELSE r)
                ELSE IF st_list # <<>> /\ get_actual_role(Element(city, k), m.role, city.modes) = "stop"
                        /\ is_station(Element(city, k), city.modes)
                THEN stopped(Element(city, k))
                ELSE other(Element(city, k))
         IN Route_members(relation, city, i + 1, after)

\* Route.__init__(relation, city, master) for relations without colour, interval
\* and railway members: the Route, then the errors and warnings of the city,
\* and whether CriticalValidationError was raised
Route_init(relation, city, master) ==
    LET master_has(k) == master # NoObject /\ k \in DOMAIN master.tags
        mode == relation.tags["route"]
        first ==
            [stops |-> <<>>, raised |-> FALSE,
             errors |-> city.errors
                \o (IF TagGet(relation, "public_transport:version") = "1"
                    THEN <<"Public transport version is 1">> ELSE <<>>),
             warnings |-> city.warnings
                \o (IF "ref" \notin DOMAIN relation.tags /\ ~master_has("ref")
                    THEN <<"Missing ref on a route">> ELSE <<>>)
                \o (IF "colour" \notin DOMAIN relation.tags /\ ~master_has("colour") /\ mode # "tram"
                    THEN <<"Missing colour on a route">> ELSE <<>>)]
        made(walked, order) ==
            [route |->
                [id |-> el_id(relation),
                 ref |-> IF "ref" \in DOMAIN relation.tags THEN relation.tags["ref"]
                         ELSE IF master_has("ref") THEN master.tags["ref"]
                         ELSE TagGet(relation, "name"),
                 name |-> TagGet(relation, "name"),
                 mode |-> mode, colour |-> None, infill |-> None,
                 network |-> get_network(relation), interval |-> 0,
                 is_circular |-> Len(walked.stops) > 1
                                 /\ walked.stops[1].stoparea = walked.stops[Len(walked.stops)].stoparea,
                 stops |-> walked.stops],
             raised |-> walked.raised,
             errors |-> walked.errors
                \o (IF walked.raised THEN <<>>
                    ELSE IF Len(walked.stops) = 0 THEN <<"Route has no stops">>
                    ELSE IF Len(walked.stops) = 1 THEN <<"Route has only one stop">>
                    ELSE order.errors),
             warnings |-> walked.warnings
                \o (IF ~walked.raised /\ Len(walked.stops) > 1 THEN order.warnings ELSE <<>>)]
        ordered(walked) == made(walked, check_stops_order_by_angle(walked.stops))
    IN ordered(Route_members(relation, city, 1, first))

\* The key of a route in city.routes: el_id(master) if master else route.ref
RouteKey(master, route) ==
    IF master # NoObject THEN [id |-> el_id(master), ref |-> None]
    ELSE [id |-> NoObject, ref |-> route.ref]

\* City.make_transfer(sag) from member i; transfer holds the ids of the StopAreas
RECURSIVE make_transfer(_, _, _, _)
make_transfer(city, sag, i, transfer) ==
    IF i > Len(sag.members)
    THEN (IF Cardinality(transfer) > 1 THEN [city EXCEPT !.transfers = Append(@, transfer)]
          ELSE city)
    ELSE LET k == el_id(sag.members[i])
             el == Element(city, k)
             stoparea == city.stations[k][1]
         IN IF ~HasElement(city, k) THEN make_transfer(city, sag, i + 1, transfer)
            ELSE IF "tags" \notin DOMAIN el
            THEN make_transfer(
                    [city EXCEPT !.errors = Append(@, "An untagged object in a stop_area_group")],
                    sag, i + 1, transfer)
            ELSE IF el.type # "relation" \/ TagGet(el, "type") # "public_transport"
                    \/ TagGet(el, "public_transport") # "stop_area"
                    \/ k \notin DOMAIN city.stations
            THEN make_transfer(city, sag, i + 1, transfer)
            ELSE make_transfer(
                    [city EXCEPT
                        !.errors = IF city.objects[stoparea].transfer # NoObject
                                   THEN Append(@, "Stop area belongs to multiple interchanges")
                                   ELSE @,
                        !.objects[stoparea].transfer = el_id(sag)],
                    sag, i + 1, transfer \cup {stoparea})

\* self.routes[k].add(route, self) for the route of relation el, and
\* `del self.routes[k]` for a master left without routes
add_route(city, el) ==
    LET master == DictGet(city.masters, el_id(el), NoObject)
        master_of(k) ==
            IF ODictHas(city.routes, k)
            THEN city.routes[CHOOSE i \in 1..Len(city.routes) : city.routes[i][1] = k][2]
            ELSE RouteMaster_init(master)
        kept(k, added) ==
            [city EXCEPT
                !.errors = added.errors, !.warnings = added.warnings,
                !.routes = IF Len(added.master.routes) = 0
                           THEN SelectSeq(@, LAMBDA kv : kv[1] # k)
                           ELSE ODictSet(@, k, added.master)]
        keyed(made, k) == kept(k, RouteMaster_add(master_of(k), made.route, made))
        routed(made) ==
            IF made.raised
            THEN [city EXCEPT !.errors = made.errors, !.warnings = made.warnings, !.raised = TRUE]
            ELSE keyed(made, RouteKey(master, made.route))
    IN routed(Route_init(el, city, master))

\* City.extract_routes, "Extract routes", from element i
RECURSIVE extract_relations(_, _)
extract_relations(city, i) ==
    IF i > Len(city.elements) \/ city.raised THEN city
    ELSE LET el == city.elements[i]
             master == DictGet(city.masters, el_id(el), NoObject)
             skipped == \/ ~is_route(el, city.modes)
                        \/ TagGet(el, "access") \in {"no", "private"}
                        \/ /\ city.networks # {}
                           /\ get_network(el) \notin city.networks
                           /\ (master = NoObject \/ get_network(master) \notin city.networks)
             grouped(routed) ==
                IF ~routed.raised /\ el.type = "relation"
                   /\ TagGet(el, "public_transport") = "stop_area_group"
                THEN make_transfer(routed, el, 1, {}) ELSE routed
         IN extract_relations(grouped(IF skipped THEN city ELSE add_route(city, el)), i + 1)

\* The ids of the StopAreas of the stops of the routes of a city
used_stop_areas(city) ==
    UNION {UNION {{rm[2].routes[j].stops[n].stoparea : n \in 1..Len(rm[2].routes[j].stops)} :
                    j \in 1..Len(rm[2].routes)} : rm \in Range(city.routes)}

\* City.extract_routes(): city.raised when Route.__init__ raises
City_extract_routes(city) ==
    LET filtered(routed, used) ==
            [routed EXCEPT
                !.transfers = SelectSeq([i \in 1..Len(@) |-> @[i] \cap used],
                                        LAMBDA new_tr : Cardinality(new_tr) > 1)]
        finished(routed) ==
            IF routed.raised THEN routed ELSE filtered(routed, used_stop_areas(routed))
    IN finished(extract_relations(extract_stations(city, {}, 1), 1))

-----------------------------------------------------------------------------
(* subway_structure.py: City.validate and find_transfers *)

\* A plausible slip: the message always recorded as a warning.
error_if_warns(city, is_error, message) == [city EXCEPT !.warnings = Append(@, message)]

\* City.error_if(is_error, message)
error_if(city, is_error, message) ==
    IF is_error THEN [city EXCEPT !.errors = Append(@, message)]
    ELSE [city EXCEPT !.warnings = Append(@, message)]

OnlyOneRoute == "Only one route in route_master. Please check if it needs a return route"

\* sa.transfer or sa.id
transfer_or_id(sa) == IF sa.transfer # NoObject THEN sa.transfer ELSE sa.id

\* City.check_return_routes, `for variant in rmaster` from variant i: the keys of
\* variants, and have_return
RECURSIVE return_variants(_, _, _, _)
return_variants(city, rmaster, i, found) ==
    IF i > Len(rmaster.routes) THEN found
    ELSE LET variant == rmaster.routes[i]
             first == city.objects[variant.stops[1].stoparea]
             last == city.objects[variant.stops[Len(variant.stops)].stoparea]
             t == IF first.transfer = last.transfer THEN <<first.id, last.id>>
                  ELSE <<transfer_or_id(first), transfer_or_id(last)>>
             tr == <<t[2], t[1]>>
             after == IF Len(variant.stops) < 2 \/ t \in found.variants THEN found
                      ELSE [variants |-> found.variants \cup {t},
                            have_return |-> IF tr \in found.variants \cup {t}
                                            THEN found.have_return \cup {t, tr}
                                            ELSE found.have_return]
         IN return_variants(city, rmaster, i + 1, after)

\* City.check_return_routes(rmaster)
check_return_routes(city, rmaster) ==
    LET checked(found) ==
            IF Cardinality(found.variants) = 0
            THEN [city EXCEPT !.errors = Append(@, "An empty route master")]
            ELSE IF Cardinality(found.variants) = 1
            THEN error_if(city, ~rmaster.best.is_circular, OnlyOneRoute)
            ELSE [city EXCEPT !.warnings =
                    @ \o [j \in 1..Cardinality(found.variants \ found.have_return) |->
                            "Route does not have a return direction"]]
    IN checked(return_variants(city, rmaster, 1, [variants |-> {}, have_return |-> {}]))

\* A plausible slip: only the stops of the best variant counted.
stop_areas_of_best(rmaster) ==
    {rmaster.best.stops[n].stoparea : n \in 1..Len(rmaster.best.stops)}

\* RouteMaster.stop_areas(): the StopAreas of all variants, each id once
stop_areas(rmaster) ==
    UNION {{rmaster.routes[j].stops[n].stoparea : n \in 1..Len(rmaster.routes[j].stops)} :
             j \in 1..Len(rmaster.routes)}

\* City.validate, `for rmaster in self.routes.values()` from master i: the city
\* after check_return_routes, found_stations and the stations met
RECURSIVE validate_routes(_, _, _, _)
validate_routes(city, i, found_stations, met) ==
    IF i > Len(city.routes) THEN [city |-> city, found_stations |-> found_stations, met |-> met]
    ELSE LET rmaster == city.routes[i][2]
             next(sas) ==
                validate_routes(check_return_routes(city, rmaster), i + 1,
                    found_stations + Cardinality({transfer_or_id(city.objects[sa]) : sa \in sas}),
                    met \cup {city.objects[sa].station.id : sa \in sas})
         IN next(stop_areas(rmaster))

\* City.count_unused_entrances(): the two warnings
count_unused_entrances(city) ==
    LET in_stop_areas ==
            UNION {{el_id(el.members[j]) : j \in 1..Len(el.members)} :
                     el \in {e \in Range(city.elements) :
                                /\ e.type = "relation" /\ "members" \in DOMAIN e
                                /\ TagGet(e, "public_transport") = "stop_area"}}
        entrances == {el_id(e) : e \in {x \in Range(city.elements) :
                        x.type = "node" /\ TagGet(x, "railway") = "subway_entrance"}}
        not_in_sa == entrances \ in_stop_areas
        unused == not_in_sa \ DOMAIN city.stations
    IN [city EXCEPT !.warnings =
            @ \o (IF unused # {} THEN <<"Found entrances not used in routes or stop_areas">>
                  ELSE <<>>)
              \o (IF not_in_sa # {} THEN <<"Subway entrances are not in stop_area relations">>
                  ELSE <<>>)]

\* City.validate_lines()
validate_lines(city) ==
    LET light == Cardinality({i \in 1..Len(city.routes) : city.routes[i][2].mode # "subway"})
        lines == Len(city.routes) - light
    IN [city EXCEPT !.errors =
            @ \o (IF lines # city.num_lines THEN <<"Found subway lines, expected another number">>
                  ELSE <<>>)
              \o (IF light # city.num_light_lines
                  THEN <<"Found light rail lines, expected another number">> ELSE <<>>)]

\* ALLOWED_STATIONS_MISMATCH and ALLOWED_TRANSFERS_MISMATCH, in hundredths
ALLOWED_STATIONS_MISMATCH == 2

ALLOWED_TRANSFERS_MISMATCH == 7

FoundStations == "Found stations in routes, expected another number"

FoundInterchanges == "Found interchanges, expected another number"

\* City.validate, the check of found_stations against num_stations; the division
\* by num_stations = 0 raises ZeroDivisionError.  (n - f) / n <= a / 100 is
\* decided as (n - f) * 100 <= a * n.
validate_stations(city) ==
    IF city.found_stations = city.num_stations THEN city
    ELSE IF city.num_stations = 0 THEN [city EXCEPT !.raised = TRUE]
    ELSE error_if(city,
                  ~(/\ 0 <= city.num_stations - city.found_stations
                    /\ (city.num_stations - city.found_stations) * 100
                           <= ALLOWED_STATIONS_MISMATCH * city.num_stations),
                  FoundStations)

\* City.validate, the check of found_interchanges against num_interchanges
validate_interchanges(city) ==
    IF city.raised \/ city.found_interchanges = city.num_interchanges THEN city
    ELSE error_if(city,
                  /\ city.num_interchanges # 0
                  /\ ~((city.num_interchanges - city.found_interchanges) * 100
                           <= ALLOWED_TRANSFERS_MISMATCH * city.num_interchanges),
                  FoundInterchanges)

\* City.validate, the end: the networks of the masters
validate_networks(city) ==
    LET networks == {city.routes[i][2].network : i \in 1..Len(city.routes)}
        most == IF Cardinality(city.networks) > 1 THEN Cardinality(city.networks) ELSE 1
    IN IF ~city.raised /\ Cardinality(networks) > most
       THEN [city EXCEPT !.warnings = Append(@, "More than one network")] ELSE city

\* City.validate() of a city that is not overground.  unused_stations is 0
\* while the attribute is not set; unused_listed holds the ids that the warning
\* lists; found_stations and found_interchanges are those of the city.
City_validate(city) ==
    LET warned(reached, unused_stations) ==
            IF unused_stations = {} THEN reached
            ELSE [reached EXCEPT !.warnings = Append(@, "Unused stations"),
                                 !.unused_stations = Cardinality(unused_stations),
                                 !.unused_listed = unused_stations]
        counted(walked) ==
            [validate_lines(count_unused_entrances(
                    warned(walked.city, city.station_ids \ walked.met))) EXCEPT
                !.found_stations = walked.found_stations,
                !.found_interchanges = Len(city.transfers)]
    IN validate_networks(validate_interchanges(validate_stations(
            counted(validate_routes(city, 1, 0, {})))))

\* find_transfers(elements, cities), `for sag in stop_area_groups`: the set of
\* StopArea ids of each stop_area_group
group_transfers(elements, cities) ==
    LET stop_area_groups ==
            SelectSeq(elements, LAMBDA el :
                /\ el.type = "relation" /\ "members" \in DOMAIN el
                /\ TagGet(el, "public_transport") = "stop_area_group")
        stop_area_ids(k) ==
            UNION {Range(DictGet(cities[c].stations, k, <<>>)) : c \in 1..Len(cities)}
        transfer(sag) == UNION {stop_area_ids(el_id(sag.members[j])) : j \in 1..Len(sag.members)}
    IN [g \in 1..Len(stop_area_groups) |-> transfer(stop_area_groups[g])]

\* A plausible slip: the set of every group returned, whatever its size.
find_transfers_of_any_size(elements, cities) == group_transfers(elements, cities)

\* find_transfers(elements, cities): the sets with more than one StopArea
find_transfers(elements, cities) ==
    SelectSeq(group_transfers(elements, cities), LAMBDA transfer : Cardinality(transfer) > 1)

-----------------------------------------------------------------------------
(* subway_structure.py: Route.build_longest_line.  A node 'n<k>' is the      *)
(* number k.  The state of the loop is a record b: track, last_track,        *)
(* is_first (unset before the first track way, read only after it is set),  *)
(* warned_about_holes, line_nodes, and the errors and warnings of the city.  *)

\* The local variables before the loop
build_longest_line_start(city) ==
    [track |-> <<>>, last_track |-> <<>>, is_first |-> FALSE, warned_about_holes |-> FALSE,
     line_nodes |-> {}, errors |-> city.errors, warnings |-> city.warnings]

\* track.extend(reversed(new_segment[:-1]))
extend_reversed(track, new_segment) ==
    track \o Reverse(SubSeq(new_segment, 1, Len(new_segment) - 1))

\* track.extend(new_segment[1:])
extend_forward(track, new_segment) ==
    track \o SubSeq(new_segment, 2, Len(new_segment))

\* A plausible slip: the chain reversed at any join, not only at its first
join_reversing_always(b, new_segment) ==
    LET track == b.track
        last == track[Len(track)]
        seg_last == new_segment[Len(new_segment)]
    IN IF new_segment[1] = last THEN [b EXCEPT !.track = extend_forward(track, new_segment)]
       ELSE IF seg_last = last THEN [b EXCEPT !.track = extend_reversed(track, new_segment)]
       ELSE IF track[1] \in {new_segment[1], seg_last}
       THEN [b EXCEPT !.track = IF new_segment[1] = track[1]
                                THEN extend_forward(Reverse(track), new_segment)
                                ELSE extend_reversed(Reverse(track), new_segment)]
       ELSE [b EXCEPT !.warnings = IF b.warned_about_holes THEN @
                                   ELSE Append(@, "Hole in route rails"),
                      !.warned_about_holes = TRUE,
                      !.last_track = IF Len(track) > Len(@) THEN track ELSE @,
                      !.track = <<>>]

\* The else branch of `if not track`, before `is_first = False`: the new way
\* joined to the chain, or the chain stored and emptied
join(b, new_segment) ==
    LET track == b.track
        last == track[Len(track)]
        seg_last == new_segment[Len(new_segment)]
    IN IF new_segment[1] = last THEN [b EXCEPT !.track = extend_forward(track, new_segment)]
       ELSE IF seg_last = last THEN [b EXCEPT !.track = extend_reversed(track, new_segment)]
       ELSE IF b.is_first /\ track[1] \in {new_segment[1], seg_last}
       THEN [b EXCEPT !.track = IF new_segment[1] = track[1]
                                THEN extend_forward(Reverse(track), new_segment)
                                ELSE extend_reversed(Reverse(track), new_segment)]
       ELSE [b EXCEPT !.warnings = IF b.warned_about_holes THEN @
                                   ELSE Append(@, "Hole in route rails"),
                      !.warned_about_holes = TRUE,
                      !.last_track = IF Len(track) > Len(@) THEN track ELSE @,
                      !.track = <<>>]

\* The nodes of a way as the member gives them: reversed for the role backward
member_nodes(el, m) == IF m.role = "backward" THEN Reverse(el.nodes) ELSE el.nodes

\* Whether the loop takes the member as a track way with nodes
is_track_member(city, m) ==
    /\ HasElement(city, el_id(m))
    /\ is_track(Element(city, el_id(m)))
    /\ "nodes" \in DOMAIN Element(city, el_id(m))
    /\ Len(Element(city, el_id(m)).nodes) >= 2

\* One turn of `for m in relation['members']`
build_longest_line_member(b, city, m) ==
    LET k == el_id(m)
        taken(el) ==
            LET nodes == member_nodes(el, m)
                noted == [b EXCEPT !.line_nodes = @ \cup Range(nodes)]
            IN IF b.track = <<>> THEN [noted EXCEPT !.is_first = TRUE, !.track = nodes]
               ELSE [join(noted, nodes) EXCEPT !.is_first = FALSE]
    IN IF ~HasElement(city, k) THEN b
       ELSE IF ~is_track(Element(city, k)) THEN b
       ELSE IF "nodes" \notin DOMAIN Element(city, k) \/ Len(Element(city, k).nodes) < 2
       THEN [b EXCEPT !.errors = Append(@, "Cannot find nodes in a railway")]
       ELSE taken(Element(city, k))

\* A plausible slip: the duplicate points left in
keep_duplicate_points(last_track) == last_track

\* `Remove duplicate points`
remove_duplicate_points(last_track) ==
    LET kept == SelectSeq([i \in 1..Len(last_track) |-> i],
                          LAMBDA i : i = 1 \/ last_track[i - 1] # last_track[i])
    IN [j \in 1..Len(kept) |-> last_track[kept[j]]]

\* After the loop: the longer chain without its duplicate points, and line_nodes
build_longest_line_return(b) ==
    LET last_track == IF Len(b.track) > Len(b.last_track) THEN b.track ELSE b.last_track
    IN [last_track |-> remove_duplicate_points(last_track), line_nodes |-> b.line_nodes]

-----------------------------------------------------------------------------
(* subway_structure.py: Route.__init__, the loop over the members, one turn  *)
(* at a time, and RouteStop.  The state of the loop is a record r: stops,    *)
(* stations (ids of the stop areas recorded), seen_stops, seen_platforms,    *)
(* repeat_pos with replay for `repeat_pos is not None`, the errors and       *)
(* warnings of the city, and raised for CriticalValidationError.  The        *)
(* relation has few track nodes, so check_stop_positions is False.           *)

\* actual_role in m['role']
RoleNames(actual_role, role) ==
    IF actual_role = "stop" THEN role \in {"stop", "stop_entry_only", "stop_exit_only"}
    ELSE role \in RolesOfPlatforms

\* RouteStop.__init__(stoparea), without the entry and exit attributes, which
\* the loop does not read
RouteStop_init(stoparea) ==
    [stoparea |-> stoparea, stop |-> <<>>, distance |-> 0, seen_stop |-> FALSE,
     seen_platform_entry |-> FALSE, seen_platform_exit |-> FALSE, seen_station |-> FALSE]

\* RouteStop.seen_platform
seen_platform(stop) == stop.seen_platform_entry \/ stop.seen_platform_exit

\* RouteStop.add(member, relation, city) for the element el of the member: the
\* stop, and the errors and warnings it adds
RouteStop_add(stop, m, el, modes) ==
    LET role == m.role
        actual_role == get_actual_role(el, role, modes)
        placed ==
            IF is_stop(el) THEN [stop EXCEPT !.stop = el_center(el)]
            ELSE IF is_station(el, modes)
            THEN (IF ~stop.seen_stop /\ ~seen_platform(stop)
                  THEN [stop EXCEPT !.stop = el_center(el)] ELSE stop)
            ELSE IF is_platform(el)
            THEN (IF ~stop.seen_stop THEN [stop EXCEPT !.stop = el_center(el)] ELSE stop)
            ELSE stop
        multiple_check ==
            IF actual_role = "platform"
            THEN (IF role = "platform_entry_only" THEN stop.seen_platform_entry
                  ELSE IF role = "platform_exit_only" THEN stop.seen_platform_exit
                  ELSE seen_platform(stop))
            ELSE IF actual_role = "stop" THEN stop.seen_stop
            ELSE FALSE
        seen ==
            IF actual_role = "platform"
            THEN [placed EXCEPT
                    !.seen_platform_entry = IF role = "platform_exit_only" THEN @ ELSE TRUE,
                    !.seen_platform_exit = IF role = "platform_entry_only" THEN @ ELSE TRUE]
            ELSE IF actual_role = "stop" THEN [placed EXCEPT !.seen_stop = TRUE]
            ELSE placed
    IN [stop |-> seen,
        errors |->
            (IF is_stop(el) /\ el.type # "node" THEN <<"Stop position is not a node">> ELSE <<>>)
            \o (IF ~is_stop(el) /\ ~is_station(el, modes) /\ ~is_platform(el)
                THEN <<"Not a stop or platform in a route relation">> ELSE <<>>)
            \o (IF multiple_check /\ actual_role = "stop"
                THEN <<"Multiple stops for a station in a route relation">> ELSE <<>>),
        warnings |->
            (IF is_stop(el) /\ role \in RolesOfPlatforms
             THEN <<"Stop position in a platform role in a route">> ELSE <<>>)
            \o (IF ~is_stop(el) /\ is_station(el, modes) /\ el.type # "node"
                THEN <<"Station in route is not a node">> ELSE <<>>)
            \o (IF ~is_stop(el) /\ ~is_station(el, modes) /\ is_platform(el)
                   /\ role \in {"stop", "stop_entry_only", "stop_exit_only"}
                THEN <<"Platform in a stop role in a route">> ELSE <<>>)
            \o (IF actual_role = "platform"
                   /\ role \notin {"platform_entry_only", "platform_exit_only", "platform"}
                   /\ role \notin {"stop", "stop_entry_only", "stop_exit_only"}
                THEN <<"Platform with invalid role in a route">> ELSE <<>>)
            \o (IF multiple_check /\ actual_role # "stop"
                THEN <<"Multiple platforms for a station in a route relation">> ELSE <<>>)]

\* The locals before the loop over the members
Route_members_start(city) ==
    [stops |-> <<>>, stations |-> {}, seen_stops |-> FALSE, seen_platforms |-> FALSE,
     replay |-> FALSE, repeat_pos |-> 0,
     errors |-> city.errors, warnings |-> city.warnings, raised |-> FALSE]

\* A plausible slip: the matching stop looked for from the first stop each time
find_matching_stop_from_start(stops, repeat_pos, st) ==
    LET found == {j \in 0..(Len(stops) - 1) : stops[j + 1].stoparea = st}
    IN IF found = {} THEN Len(stops) ELSE CHOOSE j \in found : \A l \in found : j <= l

\* `Find the matching stop starting with index repeat_pos` (indexes from 0)
find_matching_stop(stops, repeat_pos, st) ==
    LET found == {j \in repeat_pos..(Len(stops) - 1) : stops[j + 1].stoparea = st}
    IN IF found = {} THEN Len(stops) ELSE CHOOSE j \in found : \A l \in found : j <= l

\* stop.add(m, relation, city) for the stop at index `at` (from 1), and the
\* seen flags of the loop while repeat_pos is None
Route_add_to_stop(r, m, el, modes, at) ==
    LET added(a) ==
            [r EXCEPT !.stops[at] = a.stop,
                      !.errors = @ \o a.errors,
                      !.warnings = @ \o a.warnings,
                      !.seen_stops = IF r.replay THEN @
                                     ELSE @ \/ a.stop.seen_stop \/ a.stop.seen_station,
                      !.seen_platforms = IF r.replay THEN @ ELSE @ \/ seen_platform(a.stop)]
    IN added(RouteStop_add(r.stops[at], m, el, modes))

\* Lines 729-746: the member matched against the stops there are
Route_replay(r, m, el, modes, st) ==
    LET actual_role == get_actual_role(el, m.role, modes)
        pos == find_matching_stop(r.stops, r.repeat_pos, st)
    IN IF r.repeat_pos >= Len(r.stops) THEN r
       ELSE IF (actual_role = "stop" /\ r.seen_stops)
               \/ (actual_role = "platform" /\ r.seen_platforms)
       THEN [r EXCEPT !.errors = Append(@, "Found an out-of-place stop or platform")]
       ELSE IF pos >= Len(r.stops)
       THEN [r EXCEPT !.repeat_pos = pos, !.errors = Append(@, "Incorrect order of stops")]
       ELSE Route_add_to_stop([r EXCEPT !.repeat_pos = pos], m, el, modes, pos + 1)

\* Lines 700-757: a member that is in city.stations and has an actual role
Route_station_member(r, m, el, modes, st_list) ==
    LET st == st_list[1]
        actual_role == get_actual_role(el, m.role, modes)
        known == [r EXCEPT
                    !.errors = IF Len(st_list) > 1
                               THEN Append(@, "Ambiguous station in route") ELSE @,
                    !.warnings = IF m.role # "" /\ ~RoleNames(actual_role, m.role)
                                 THEN Append(@, "Wrong role") ELSE @]
        appended == [known EXCEPT !.stops = Append(@, RouteStop_init(st)),
                                  !.stations = @ \cup {st}]
        circular == \/ (known.seen_stops /\ known.seen_platforms)
                    \/ (actual_role = "stop" /\ ~known.seen_platforms)
                    \/ (actual_role = "platform" /\ ~known.seen_stops)
    IN IF known.replay THEN Route_replay(known, m, el, modes, st)
       ELSE IF known.stops = <<>> \/ st \notin known.stations
       THEN Route_add_to_stop(appended, m, el, modes, Len(appended.stops))
       ELSE IF known.stops[Len(known.stops)].stoparea = st
       THEN Route_add_to_stop(known, m, el, modes, Len(known.stops))
       ELSE IF circular
       THEN Route_add_to_stop(appended, m, el, modes, Len(appended.stops))
       ELSE Route_replay([known EXCEPT !.replay = TRUE, !.repeat_pos = 0], m, el, modes, st)

\* Lines 759-796: a member that is no stop of a station
Route_other_member(r, city, m) ==
    LET k == el_id(m)
        told(el) ==
            IF "tags" \notin DOMAIN el
            THEN [r EXCEPT !.errors = Append(@, "Untagged object in a route")]
            ELSE IF \E ck \in CONSTRUCTION_KEYS : ck \in DOMAIN el.tags
            THEN [r EXCEPT !.errors = Append(@, "An under construction feature in route")]
            ELSE IF is_station(el, city.modes) THEN r
            ELSE IF TagGet(el, "railway") \in {"station", "halt"}
            THEN [r EXCEPT !.errors = Append(@, "Missing station=mode")]
            ELSE IF get_actual_role(el, m.role, city.modes) # None
            THEN [r EXCEPT
                    !.errors = Append(@, "Stop or platform is not connected to a station in route")]
            ELSE IF ~is_track(el)
            THEN [r EXCEPT !.errors = Append(@, "Unknown member type in route")]
            ELSE r
    IN IF ~HasElement(city, k)
       THEN (IF IsStopOrPlatformRole(m.role)
             THEN [r EXCEPT !.errors = Append(@, CriticalError), !.raised = TRUE]
             ELSE r)
       ELSE told(Element(city, k))

\* One turn of `for m in relation['members']`, lines 696-796
Route_member(r, city, m) ==
    LET k == el_id(m)
    IN IF IsInactiveRole(m.role) THEN r
       ELSE IF k \in DOMAIN city.stations
               /\ get_actual_role(Element(city, k), m.role, city.modes) # None
       THEN Route_station_member(r, m, Element(city, k), city.modes, city.stations[k])
       ELSE IF k \in DOMAIN city.stations /\ Len(city.stations[k]) > 1
       THEN Route_other_member([r EXCEPT !.errors = Append(@, "Ambiguous station in route")],
                               city, m)
       ELSE Route_other_member(r, city, m)

-----------------------------------------------------------------------------
(* Specification of RouteMaster: the variants of one master added one by one *)

\* The number of RouteMaster.add calls on one master
MaxAdds == 3

\* No route_master relation, one tagged route_master=subway, one without that tag
MasterElements ==
    { NoObject,
      [type |-> "relation", id |-> 40, tags |-> Tags({<<"route_master", "subway">>, <<"ref", "1">>})],
      [type |-> "relation", id |-> 41, tags |-> Tags({<<"ref", "1">>, <<"network", "N7">>})] }

\* The Route objects of three route relations, of either mode and with no, two
\* or three stops
VariantPool ==
    {[id |-> el_id([type |-> "relation", id |-> n]), mode |-> m, ref |-> "1", name |-> None,
      network |-> IF n = 7 THEN "N7" ELSE IF n = 12 THEN "N12" ELSE None,
      colour |-> IF n = 30 THEN None ELSE "ff0000", infill |-> None,
      interval |-> IF n = 12 THEN 120 ELSE 0,
      stops |-> [i \in 1..k |-> i]] :
        n \in {7, 12, 30}, m \in {"subway", "light_rail"}, k \in {0, 2, 3}}

InitMaster ==
    /\ \E master \in MasterElements :
          /\ given = [master |-> master, route |-> NoObject]
          /\ built = [master |-> RouteMaster_init(master), errors |-> <<>>, warnings |-> <<>>,
                      added |-> {}]
    /\ cpc = "adding"
    /\ UidIdle /\ ProcIdle /\ RouteIdle /\ DriverIdle

\* self.routes[k].add(route, self) for the next route relation of the master;
\* built.added holds the ids of the relations added so far
AddRoute ==
    /\ cpc = "adding"
    /\ Cardinality(built.added) < MaxAdds
    /\ \E route \in VariantPool :
          /\ route.id \notin built.added
          /\ given' = [given EXCEPT !.route = route]
          /\ LET after == RouteMaster_add(built.master, route, built)
             IN built' = [master |-> after.master, errors |-> after.errors,
                          warnings |-> after.warnings, added |-> built.added \cup {route.id}]
    /\ UNCHANGED <<cpc, uid_vars, proc_vars, route_vars, drv_vars>>

NextMaster == AddRoute

SpecMaster == InitMaster /\ [][NextMaster]_vars

-----------------------------------------------------------------------------
(* Specification of City: the elements of one snapshot added to a city, then *)
(* extract_routes, validate and find_transfers, as process_subways.py calls  *)
(* them.  Coordinates are metres on a plane.                                 *)

CityStation(n, name, at) ==
    [type |-> "node", id |-> n, lon |-> at[1], lat |-> at[2],
     tags |-> Tags({<<"railway", "station">>, <<"station", "subway">>, <<"name", name>>})]

\* A subway entrance; etag is the value of its entrance tag, None without the tag
CityEntrance(n, at, etag) ==
    [type |-> "node", id |-> n, lon |-> at[1], lat |-> at[2],
     tags |-> Tags({<<"railway", "subway_entrance">>}
                   \cup (IF etag = None THEN {} ELSE {<<"entrance", etag>>}))]

Member(type, n, role) == [type |-> type, id |-> n, role |-> role]

StopAreaRelation(n, members) ==
    [type |-> "relation", id |-> n, members |-> members,
     tags |-> Tags({<<"type", "public_transport">>, <<"public_transport", "stop_area">>})]

GroupRelation(n, members) ==
    [type |-> "relation", id |-> n, members |-> members,
     tags |-> Tags({<<"type", "public_transport">>, <<"public_transport", "stop_area_group">>})]

RouteRelation(n, mode, members) ==
    [type |-> "relation", id |-> n, members |-> members,
     tags |-> Tags({<<"type", "route">>, <<"route", mode>>, <<"ref", "1">>})]

MasterRelation(n, members) ==
    [type |-> "relation", id |-> n, members |-> members,
     tags |-> Tags({<<"type", "route_master">>, <<"route_master", "subway">>, <<"ref", "1">>})]

\* The snapshot that the others vary: stations n1, n2, n3, an entrance n5 at n1,
\* a stop_area relation for each station, route r30 over n1, n2 and its return
\* r31, under the master r40; the row of the city expects what is found
BaseWorld ==
    [e5 |-> None, role5 |-> "", e6 |-> "absent", sa1 |-> TRUE, grp |-> <<>>,
     stops30 |-> <<1, 2>>, back |-> "return", master |-> TRUE,
     num_stations |-> 2, num_interchanges |-> 0, missing |-> FALSE]

\* The entrances and the stop area of n1, the routes, the counts of the row and
\* a stop that the snapshot lacks are varied, one group of fields at a time
WorldFamilies ==
    { {"e5", "role5", "e6", "sa1"},
      {"stops30", "back", "master", "grp"},
      {"num_stations", "num_interchanges", "grp", "stops30"},
      {"missing", "back"} }

CityWorlds ==
    {w \in [e5 : {"absent", None, "exit", "entrance"}, role5 : {"", "exit_only", "entry_only"},
            e6 : {"absent", "exit", "entrance"}, sa1 : BOOLEAN,
            grp : {<<>>, <<11>>, <<11, 12>>, <<10, 11>>},
            stops30 : {<<>>, <<1>>, <<1, 2>>, <<1, 2, 3>>, <<1, 2, 3, 1>>},
            back : {"absent", "return", "same", "other", "light_rail"}, master : BOOLEAN,
            num_stations : {0, 2, 3}, num_interchanges : {0, 1, 2}, missing : BOOLEAN] :
        \E family \in WorldFamilies :
            \A f \in DOMAIN BaseWorld \ family : w[f] = BaseWorld[f]}

\* The elements of the snapshot of a world, in the order of the file
CityElements(w) ==
    LET members(ns, role) == [j \in 1..Len(ns) |-> Member("node", ns[j], role)]
        relations(ns) == [j \in 1..Len(ns) |-> Member("relation", ns[j], "")]
        lost == IF w.missing THEN <<Member("node", 9, "stop")>> ELSE <<>>
    IN <<CityStation(1, "a", <<0, 0>>), CityStation(2, "b", <<1000, 0>>),
         CityStation(3, "c", <<500, 800>>)>>
       \o (IF w.e5 = "absent" THEN <<>> ELSE <<CityEntrance(5, <<100, 0>>, w.e5)>>)
       \o (IF w.e6 = "absent" THEN <<>> ELSE <<CityEntrance(6, <<0, 300>>, w.e6)>>)
       \o (IF w.sa1
           THEN <<StopAreaRelation(10, <<Member("node", 1, ""), Member("node", 5, w.role5),
                                         Member("node", 6, "")>>)>>
           ELSE <<>>)
       \o <<StopAreaRelation(11, <<Member("node", 2, "")>>),
            StopAreaRelation(12, <<Member("node", 3, "")>>)>>
       \o (IF w.grp = <<>> THEN <<>> ELSE <<GroupRelation(20, relations(w.grp))>>)
       \o <<RouteRelation(30, "subway", members(w.stops30, "stop") \o lost)>>
       \o (CASE w.back = "absent" -> <<>>
             [] w.back = "return" -> <<RouteRelation(31, "subway", members(Reverse(w.stops30), ""))>>
             [] w.back = "same" -> <<RouteRelation(31, "subway", members(w.stops30, ""))>>
             [] w.back = "other" -> <<RouteRelation(31, "subway", members(<<3, 2>>, ""))>>
             [] w.back = "light_rail" ->
                    <<RouteRelation(31, "light_rail", members(Reverse(w.stops30), "stop"))>>)
       \o (IF w.master THEN <<MasterRelation(40, relations(<<30, 31>>))>> ELSE <<>>)

\* The row of the city in the spreadsheet
CityRow(w) ==
    [num_stations |-> w.num_stations, num_lines |-> 1, num_light_lines |-> 0,
     num_interchanges |-> w.num_interchanges]

InitCity ==
    /\ \E w \in CityWorlds : given = [row |-> CityRow(w), elements |-> CityElements(w)]
    /\ built = [city |-> City_init(given.row), transfers |-> <<>>]
    /\ cpc = "add"
    /\ UidIdle /\ ProcIdle /\ RouteIdle /\ DriverIdle

\* `for el in osm: for c in cities: if c.contains(el): c.add(el)` from element i
RECURSIVE add_elements(_, _, _)
add_elements(city, elements, i) ==
    IF i > Len(elements) THEN city ELSE add_elements(City_add(city, elements[i]), elements, i + 1)

AddElements ==
    /\ cpc = "add"
    /\ built' = [built EXCEPT !.city = add_elements(@, given.elements, 1)]
    /\ cpc' = "extract"
    /\ UNCHANGED <<given, uid_vars, proc_vars, route_vars, drv_vars>>

\* c.extract_routes(); CriticalValidationError ends the run
ExtractRoutes ==
    /\ cpc = "extract"
    /\ built' = [built EXCEPT !.city = City_extract_routes(@)]
    /\ cpc' = IF built'.city.raised THEN "raised" ELSE "validate"
    /\ UNCHANGED <<given, uid_vars, proc_vars, route_vars, drv_vars>>

\* c.validate(); ZeroDivisionError ends the run
Validate ==
    /\ cpc = "validate"
    /\ built' = [built EXCEPT !.city = City_validate(@)]
    /\ cpc' = IF built'.city.raised THEN "crashed" ELSE "transfers"
    /\ UNCHANGED <<given, uid_vars, proc_vars, route_vars, drv_vars>>

\* transfers = find_transfers(osm, cities)
FindTransfers ==
    /\ cpc = "transfers"
    /\ built' = [built EXCEPT !.transfers = find_transfers(given.elements, <<built.city>>)]
    /\ cpc' = "done"
    /\ UNCHANGED <<given, uid_vars, proc_vars, route_vars, drv_vars>>

NextCity == AddElements \/ ExtractRoutes \/ Validate \/ FindTransfers

SpecCity == InitCity /\ [][NextCity]_vars

-----------------------------------------------------------------------------
(* Specification of the cache file: process run once on a cache file that an *)
(* earlier run did not write                                                 *)

\* The text of the file: not JSON at all, the JSON list [], the JSON dict
\* {"A": {}} whose entry for city A has no stops, and the JSON dict {}
CacheTexts == {"not json", "[]", "{A: {}}", "{}"}

\* MapsmeCache.__init__: self.cache after json.load of the text; only
\* json.decoder.JSONDecodeError is caught, and then the cache stays {}
json_load(text) == IF text = "not json" THEN "{}" ELSE text

\* process(cities, transfers, cache_path) on a cache file with the given text:
\* the exception that ends the call, else the export
process_text(cities, ts, text, names) ==
    LET good == {cities[i].name : i \in {j \in 1..Len(cities) : is_good(cities[j])}}
        from_empty == process(cities, ts, "cache.json", [exists |-> TRUE, content |-> EmptyDict],
                              names)
        ended(raised) ==
            [raised |-> raised, loaded |-> json_load(text),
             result |-> IF raised = None THEN from_empty.result ELSE NoExport]
    IN CASE json_load(text) = "{}" -> ended(None)
         \* provide_stops_and_networks: self.cache['A']['stops'] of a city A that is not good
         [] json_load(text) = "{A: {}}" -> ended(IF "A" \notin good THEN "KeyError" ELSE None)
         \* initialize_good_city: self.cache[city_name] = {...} on a list
         [] json_load(text) = "[]" -> ended(IF good # {} THEN "TypeError" ELSE None)

InitCache ==
    /\ given \in [w : {w \in Worlds : w.cache_path # None}, text : CacheTexts]
    /\ built = <<>> /\ cpc = "ready"
    /\ UidIdle /\ ProcIdle /\ RouteIdle /\ DriverIdle

\* json.dump(processor.process(good_cities, transfers, options.cache), ...)
ProcessCacheFile ==
    /\ cpc = "ready"
    /\ \E ts \in ListOrders(TransferSets(given.w)), names \in WalkOrders(Cities(given.w)) :
          built' = process_text(Cities(given.w), ts, given.text, names)
    /\ cpc' = "done"
    /\ UNCHANGED <<given, uid_vars, proc_vars, route_vars, drv_vars>>

NextCache == ProcessCacheFile

SpecCache == InitCache /\ [][NextCache]_vars

-----------------------------------------------------------------------------
(* Specification of Route.build_longest_line: the members of one route       *)
(* relation taken one by one, then the longest chain returned                *)

\* The number of members of the route relation
MaxMembers == 4

\* A railway way of the given nodes
TrackWay(n, nodes) ==
    [type |-> "way", id |-> n, nodes |-> nodes, tags |-> Tags({<<"railway", "subway">>})]

\* Ways 1-2, 3-2, 3-4, 4-4-5 (a node repeated) and 5-1, a way of one node, and
\* a station node; relation members may also name way 9, which is not among
\* the elements
TrackElements ==
    << TrackWay(1, <<1, 2>>), TrackWay(2, <<3, 2>>), TrackWay(3, <<3, 4>>),
       TrackWay(4, <<4, 4, 5>>), TrackWay(5, <<5, 1>>), TrackWay(6, <<7>>),
       [type |-> "node", id |-> 8, lon |-> 0, lat |-> 0,
        tags |-> Tags({<<"railway", "station">>, <<"station", "subway">>})] >>

\* The members a route relation may have; only way 1 is also given backward
TrackMembers ==
    {Member("way", n, "") : n \in {1, 2, 3, 4, 5, 6, 9}}
        \cup {Member("way", 1, "backward"), Member("node", 8, "")}

\* The relations: MaxMembers members, no element twice
TrackRelations ==
    {ms \in [1..MaxMembers -> TrackMembers] :
        \A i, j \in 1..MaxMembers : i # j => el_id(ms[i]) # el_id(ms[j])}

InitTrack ==
    /\ \E ms \in TrackRelations :
          given = [city |-> [elements |-> TrackElements, errors |-> <<>>, warnings |-> <<>>],
                   relation |-> [type |-> "relation", id |-> 30, members |-> ms]]
    /\ built = [i |-> 1, b |-> build_longest_line_start(given.city), returned |-> NoObject]
    /\ cpc = "tracks"
    /\ UidIdle /\ ProcIdle /\ RouteIdle /\ DriverIdle

\* One turn of the loop over the members
TrackMember ==
    /\ cpc = "tracks"
    /\ built.i <= Len(given.relation.members)
    /\ built' = [built EXCEPT
                    !.b = build_longest_line_member(@, given.city, given.relation.members[built.i]),
                    !.i = @ + 1]
    /\ UNCHANGED <<given, cpc, uid_vars, proc_vars, route_vars, drv_vars>>

\* The statements after the loop
ReturnLongestLine ==
    /\ cpc = "tracks"
    /\ built.i > Len(given.relation.members)
    /\ built' = [built EXCEPT !.returned = build_longest_line_return(built.b)]
    /\ cpc' = "returned"
    /\ UNCHANGED <<given, uid_vars, proc_vars, route_vars, drv_vars>>

NextTrack == TrackMember \/ ReturnLongestLine

SpecTrack == InitTrack /\ [][NextTrack]_vars

-----------------------------------------------------------------------------
(* Specification of the members of a route: the members of one route         *)
(* relation taken one by one by Route.__init__                               *)

\* The number of members of the route relation
MaxRouteMembers == 5

\* A stop position or a platform
StopPosition(n, at) ==
    [type |-> "node", id |-> n, lon |-> at[1], lat |-> at[2],
     tags |-> Tags({<<"railway", "stop">>})]

Platform(n, at) ==
    [type |-> "node", id |-> n, lon |-> at[1], lat |-> at[2],
     tags |-> Tags({<<"railway", "platform">>})]

\* Stop positions 1 and 2 and platforms 11 and 12 of the stop areas r61 and r62,
\* platform 13 of r63, and a railway way
MemberElements ==
    << StopPosition(1, <<0, 0>>), StopPosition(2, <<1000, 0>>),
       Platform(11, <<0, 10>>), Platform(12, <<1000, 10>>), Platform(13, <<2000, 10>>),
       [type |-> "way", id |-> 3, nodes |-> <<1, 2>>, tags |-> Tags({<<"railway", "subway">>})] >>

\* city.stations: the ids of the stop areas of each element
MemberStations ==
    LET area(n) == <<el_id([type |-> "relation", id |-> n])>>
    IN [k \in {el_id([type |-> "node", id |-> n]) : n \in {1, 2, 11, 12, 13}} |->
           IF k.ds \in {<<1>>, <<1, 1>>} THEN area(61)
           ELSE IF k.ds \in {<<2>>, <<1, 2>>} THEN area(62)
           ELSE area(63)]

\* The members a route relation may have
RouteMemberPool ==
    {Member("node", 1, "stop"), Member("node", 2, "stop"), Member("node", 11, "platform"),
     Member("node", 12, "platform"), Member("node", 13, "platform"), Member("way", 3, "")}

InitMembers ==
    /\ \E ms \in [1..MaxRouteMembers -> RouteMemberPool] :
          given = [city |-> [elements |-> MemberElements, stations |-> MemberStations,
                             modes |-> DEFAULT_MODES_RAPID, errors |-> <<>>, warnings |-> <<>>],
                   relation |-> RouteRelation(30, "subway", ms)]
    /\ built = [i |-> 1, r |-> Route_members_start(given.city)]
    /\ cpc = "members"
    /\ UidIdle /\ ProcIdle /\ RouteIdle /\ DriverIdle

\* One turn of the loop over the members; CriticalValidationError ends it
NextMember ==
    /\ cpc = "members"
    /\ built.i <= Len(given.relation.members)
    /\ ~built.r.raised
    /\ built' = [i |-> built.i + 1,
                 r |-> Route_member(built.r, given.city, given.relation.members[built.i])]
    /\ UNCHANGED <<given, cpc, uid_vars, proc_vars, route_vars, drv_vars>>

\* Lines 797-800, for the routes of less than two stops
CountStops ==
    /\ cpc = "members"
    /\ built.i > Len(given.relation.members)
    /\ built' = [built EXCEPT
                    !.r.errors = IF Len(built.r.stops) = 0 THEN Append(@, "Route has no stops")
                                 ELSE IF Len(built.r.stops) = 1
                                 THEN Append(@, "Route has only one stop")
                                 ELSE @]
    /\ cpc' = "counted"
    /\ UNCHANGED <<given, uid_vars, proc_vars, route_vars, drv_vars>>

NextMembers == NextMember \/ CountStops

SpecMembers == InitMembers /\ [][NextMembers]_vars

-----------------------------------------------------------------------------
(* Properties of uid(), checked under SpecUid *)

\* The type tag of a composite id's prefix letter
TypeTag(t) == CASE t = "n" -> 0 [] t = "w" -> 2 [] t = "r" -> 3

\* ((numeric id << 2) | type tag) << 1
Encoded(elid) == 2 * BitOr(4 * int(elid.ds), TypeTag(elid.t))

\* C7: uid(elid) called without a type equals ((numeric_id << 2) | type_tag) << 1
\* with the tags node = 0, way = 2, relation = 3; two distinct composite ids get
\* distinct uids and the same composite id gets the same uid.
C7_UidEncodesInjectively ==
    (upc = "done" /\ utyp = None) =>
        /\ ures_a = Encoded(ua)
        /\ ures_b = Encoded(ub)
        /\ (ua # ub => ures_a # ures_b)
        /\ (ua = ub => ures_a = ures_b)

\* uid() has been called on two ids of different types with neighbouring numbers
C7_Witness ==
    /\ upc = "done" /\ utyp = None
    /\ ua.t = "n" /\ ub.t = "w" /\ int(ua.ds) = int(ub.ds) + 1

-----------------------------------------------------------------------------
(* Properties of the export and of the cache, checked under SpecProcess *)

\* The city of the snapshot with the given name
CityNamed(n) == CHOOSE c \in Range(Cities(inp)) : c.name = n

\* The stop areas the route variants of a city refer to
StopAreasOf(c) ==
    UNION {UNION {{c.routes[r].routes[v].stops[j].stoparea :
                      j \in 1..Len(c.routes[r].routes[v].stops)} :
                  v \in 1..Len(c.routes[r].routes)} :
           r \in 1..Len(c.routes)}

\* C1: every transfer (uid1, uid2, seconds) of the export has uid1 < uid2, and no
\* pair of stop uids appears in more than one entry, whatever the transfer sets
\* and the cached transfers merged in.
C1_TransfersSortedAndUnique ==
    pc = "done" =>
        \A i \in 1..Len(result.transfers) :
            /\ result.transfers[i][1] < result.transfers[i][2]
            /\ \A j \in 1..Len(result.transfers) :
                  i # j => {result.transfers[i][1], result.transfers[i][2]}
                              # {result.transfers[j][1], result.transfers[j][2]}

\* A run in which a pair occurs in two transfer sets and again among the cached
\* transfers of an adopted city
C1_Witness ==
    /\ pc = "done" /\ inp.tr = 1 /\ recovered # {}
    /\ Len(result.transfers) = 3

\* C8 as stated: the route_id of every route of the export is encoded like a stop
\* uid, ((numeric_id << 2) | 3) << 1 of the route master's relation.
C8_RouteIdEncodedAsStopUid ==
    pc = "done" =>
        \A i \in 1..Len(result.networks) :
            LET net == result.networks[i]
                city == CityNamed(net.network)
            IN /\ Len(net.routes) = Len(city.routes)
               /\ \A r \in 1..Len(net.routes) :
                     net.routes[r].route_id = 2 * BitOr(4 * int(city.routes[r].id.ds), 3)

\* C8 amended: the route_id of every route of the export is the numeric id of the
\* route master's relation shifted left by one bit, with no type tag.
C8_RouteIdIsTwiceTheId ==
    pc = "done" =>
        \A i \in 1..Len(result.networks) :
            LET net == result.networks[i]
                city == CityNamed(net.network)
            IN /\ Len(net.routes) = Len(city.routes)
               /\ \A r \in 1..Len(net.routes) :
                     net.routes[r].route_id = 2 * int(city.routes[r].id.ds)

\* The export holds the network of city A with the route of master relation 7
C8_Witness ==
    /\ pc = "done"
    /\ \E i \in 1..Len(result.networks) :
          /\ result.networks[i].network = "A"
          /\ result.networks[i].routes[1].route_id = 14

\* The station a cached stop names is in the city's elements and is a station
StillStation(c, st) ==
    LET k == [t |-> TypeLetter(st.osm_type), ds |-> str(st.osm_id)]
    IN k \in DOMAIN c.elements /\ is_station(c.elements[k], c.modes)

\* How far the station a cached stop names lies from the cached coordinates
Displacement(c, st) ==
    LET k == [t |-> TypeLetter(st.osm_type), ds |-> str(st.osm_id)]
    IN distance(el_center(c.elements[k]), <<st.lon, st.lat>>)

\* C4 as stated: a city that is not good and has a cache entry is adopted if and
\* only if every cached stop's station is present, is a station and lies strictly
\* less than the tolerance from the cached coordinates.
C4_AdoptedIffStrictlyWithin ==
    pc = "done" =>
        \A c \in Range(Cities(inp)) :
            c.name \in recovered <=>
                /\ ~is_good(c)
                /\ c.name \in DOMAIN loaded
                /\ \A k \in DOMAIN loaded[c.name].stops :
                      /\ StillStation(c, loaded[c.name].stops[k])
                      /\ Displacement(c, loaded[c.name].stops[k]) < DISPLACEMENT_TOLERANCE

\* C4 amended: a city that is not good and has a cache entry is adopted if and only
\* if every cached stop's station is present, is a station and lies at most the
\* tolerance from the cached coordinates; a good city and a city without an entry
\* are never adopted; a city that is not good is in the export exactly when adopted.
C4_AdoptedIffWithinTolerance ==
    pc = "done" =>
        \A c \in Range(Cities(inp)) :
            /\ c.name \in recovered <=>
                  /\ ~is_good(c)
                  /\ c.name \in DOMAIN loaded
                  /\ \A k \in DOMAIN loaded[c.name].stops :
                        /\ StillStation(c, loaded[c.name].stops[k])
                        /\ Displacement(c, loaded[c.name].stops[k]) <= DISPLACEMENT_TOLERANCE
            /\ c.name \in recovered => loaded[c.name].network \in Range(result.networks)
            /\ (~is_good(c) /\ c.name \notin recovered) =>
                  \A i \in 1..Len(result.networks) : result.networks[i].network # c.name

\* A city was adopted whose station lies exactly the tolerance from the cached stop
C4_Witness ==
    /\ pc = "done"
    /\ \E c \in Range(Cities(inp)) :
          /\ c.name \in recovered
          /\ \E k \in DOMAIN loaded[c.name].stops :
                Displacement(c, loaded[c.name].stops[k]) = DISPLACEMENT_TOLERANCE

\* The transfers of the export made from the transfer sets of this run
ComputedTransfers ==
    {t \in Range(result.transfers) :
        \E S \in Range(TransferSets(inp)) : \E x, y \in S :
            x # y /\ {t[1], t[2]} = {uid(x.id, None), uid(y.id, None)}}

\* Both ends of the transfer are stop areas of the city
Inside(c, t) == {t[1], t[2]} \subseteq {uid(x.id, None) : x \in StopAreasOf(c)}

\* What C5 says of the network and of the stops of a good city's cache entry
EntryHoldsNetworkAndStops(c, entry) ==
    /\ entry.network \in Range(result.networks)
    /\ entry.network.network = c.name
    /\ DOMAIN entry.stops = {x.id : x \in StopAreasOf(c)}
    /\ \A k \in DOMAIN entry.stops :
          entry.stops[k] \in Range(result.stops) /\ entry.stops[k].id = uid(k, None)

\* C5 as stated: after process the cache entry of every good city holds its new
\* network record, exactly the stop records of the stop areas of its route variants,
\* and every transfer of the export with both ends among its stop areas.
C5_EntryHoldsEveryInsideTransfer ==
    (pc = "done" /\ inp.cache_path # None) =>
        \A c \in {x \in Range(Cities(inp)) : is_good(x)} :
            LET entry == cache_file.content[c.name]
            IN /\ EntryHoldsNetworkAndStops(c, entry)
               /\ \A t \in Range(result.transfers) : Inside(c, t) => t \in Range(entry.transfers)

\* C5 amended: after process the cache entry of every good city holds its new
\* network record, exactly the stop records of the stop areas of its route variants
\* (in the entry of each good city using them), and exactly those transfers made
\* from this run's transfer sets that have both ends among its stop areas.
C5_EntryHoldsComputedInsideTransfers ==
    (pc = "done" /\ inp.cache_path # None) =>
        \A c \in {x \in Range(Cities(inp)) : is_good(x)} :
            LET entry == cache_file.content[c.name]
            IN /\ EntryHoldsNetworkAndStops(c, entry)
               /\ \A t \in ComputedTransfers : Inside(c, t) => t \in Range(entry.transfers)
               /\ \A t \in Range(entry.transfers) : t \in ComputedTransfers /\ Inside(c, t)

\* Both cities are good and share SA1 and SA2; city B had an entry with SA3, which
\* its line no longer reaches
C5_Witness ==
    /\ pc = "done" /\ runs = 2 /\ inp.cache_path # None
    /\ inp.goodA /\ inp.goodB /\ inp.st3 = "missing"
    /\ "B" \in DOMAIN loaded
    /\ \E k \in DOMAIN loaded["B"].stops : k \notin DOMAIN cache_file.content["B"].stops

-----------------------------------------------------------------------------
(* Idempotence of the export, checked under SpecRerun *)

\* A cache file with the order of each transfers list forgotten
UpToListOrder(file) ==
    [exists |-> file.exists,
     content |-> [n \in DOMAIN file.content |->
                     [network |-> file.content[n].network,
                      stops |-> file.content[n].stops,
                      transfers |-> Range(file.content[n].transfers),
                      count |-> Len(file.content[n].transfers)]]]

\* C3: a second run of process on the same cities and transfer sets, from the cache
\* file the first run saved, gives the same set of stop records, the same set of
\* transfer tuples and the same network records, and saves the cache it loaded
\* (here even up to the order of the cached transfers lists).
C3_RerunGivesSameExportAndCache ==
    [][(pc = "ready" /\ again /\ pc' = "done") =>
          /\ Range(result'.stops) = Range(result.stops)
          /\ Range(result'.transfers) = Range(result.transfers)
          /\ result'.networks = result.networks
          /\ UpToListOrder(cache_file') = UpToListOrder(cache_file)]_vars

-----------------------------------------------------------------------------
(* Properties of the itinerary of a route, checked under SpecRoute *)

\* The metres between stop j and the next one in the distances of the route
Increment(j) == cur_route.stops[j + 1].distance - cur_route.stops[j].distance

DirectDistance(j) == distance(cur_route.stops[j].stop, cur_route.stops[j + 1].stop)

\* C9: in every emitted itinerary the cumulative seconds of the stops start at 0
\* and never decrease along the list, whichever of the along-line and the direct
\* distance each segment used, and also after order recovery reordered the stops.
C9_ItinerarySecondsNonDecreasing ==
    rpc = "done" =>
        /\ itin.stops[1][2] = 0
        /\ \A j \in 1..(Len(itin.stops) - 1) : itin.stops[j][2] <= itin.stops[j + 1][2]

\* An emitted itinerary of a route reordered by the recovery data, with a segment
\* measured along the line and a segment measured directly
C9_Witness ==
    /\ rpc = "done"
    /\ "Fixed with recovery data" \in Range(cur_route.warnings)
    /\ \E j, k \in 1..(Len(cur_route.stops) - 1) :
          /\ Increment(j) # DirectDistance(j)
          /\ Increment(k) = DirectDistance(k)
          /\ distance_on_line(cur_route.stops[k].stop, cur_route.stops[k + 1].stop,
                              cur_route.tracks, 0).d # <<DirectDistance(k), 1>>
          /\ itin.stops[j][2] < itin.stops[j + 1][2]
          /\ itin.stops[k][2] < itin.stops[k + 1][2]

\* The first and the last RouteStop of the route share a stop area
Circular ==
    /\ Len(cur_route.stops) >= 2
    /\ cur_route.stops[1].stoparea = cur_route.stops[Len(cur_route.stops)].stoparea

\* C10: a route of at least two stops whose first and last stop share a stop area
\* is circular, and the walk over the positions on rails gives the "unordered"
\* error exactly when a second violation is met; on any other route the first
\* violation gives the error.
C10_CircularToleratesOneViolation ==
    rpc = "walk" =>
        /\ cur_route.is_circular = Circular
        /\ (walk.w.error # None) = (walk.w.violations > (IF Circular THEN 1 ELSE 0))

\* The walk over a circular route has met its second violation and returned the error
C10_Witness ==
    /\ rpc = "walk"
    /\ Circular
    /\ walk.w.violations = 2
    /\ walk.w.error # None

-----------------------------------------------------------------------------
(* Properties of the runs of the driver, checked under SpecPipeline *)

\* The city of the snapshot at place i, with the errors the run recorded on it
DriverCity(i) == [Cities(inp)[i] EXCEPT !.errors = derrors[i]]

\* Every station the cached stops of the entry name is still a station of the
\* city and lies within the tolerance of the cached coordinates
CachedStationsStay(c, entry) ==
    \A k \in DOMAIN entry.stops :
        /\ StillStation(c, entry.stops[k])
        /\ Displacement(c, entry.stops[k]) <= DISPLACEMENT_TOLERANCE

\* C2 as stated: a city that was good in the run before and is not good in this
\* run, while the stations of its cached stops stay, has its network record and
\* its stop records of the run before in the export of this run.
C2_NotGoodCityExportedFromCache ==
    (dpc = "done" /\ prev.ended = "done") =>
        \A i \in 1..Len(derrors) :
            LET c == DriverCity(i)
            IN (/\ c.name \in prev.good
                /\ ~is_good(c)
                /\ CachedStationsStay(c, prev.cache.content[c.name]))
               => /\ prev.cache.content[c.name].network \in Range(result.networks)
                  /\ \A k \in DOMAIN prev.cache.content[c.name].stops :
                        prev.cache.content[c.name].stops[k] \in Range(result.stops)

\* C6 as stated: when a route of a city meets a missing member with a stop or
\* platform role, the error is recorded on that city, the run goes on, and every
\* other city is extracted and validated and, when good, exported.
C6_CriticalErrorDoesNotAbortRun ==
    \A i \in 1..Len(derrors) :
        CriticalError \in Range(derrors[i]) =>
            /\ ~is_good(DriverCity(i))
            /\ dpc # "aborted"
            /\ dpc = "done" =>
                  \A j \in 1..Len(derrors) :
                      is_good(DriverCity(j)) =>
                          \E n \in Range(result.networks) : n.network = DriverCity(j).name

-----------------------------------------------------------------------------
(* Properties of the projection of the stops, checked under SpecProject *)

\* The square of the metres between the raw point of stop i and its projection
\* on the tracks, before the stops are moved
SquaredGap(i) ==
    LET raw == cur_route.stops[i].stop
        point == project_on_line(raw, cur_route.tracks).projected_point
    IN (raw[1] - point[1]) * (raw[1] - point[1]) + (raw[2] - point[2]) * (raw[2] - point[2])

Projected == rpc = "new" /\ rpc' = "walk"

\* C11 as stated: every stop project_stops_on_line returns as on the longest line,
\* with its positions on the rails, has its raw point at most 50 m from its
\* projection, interior stops and distances just above 50 m included.
C11_KeptStopsWithinTolerance ==
    [][Projected =>
          \A k \in 1..Len(stop_sequence') :
              /\ cur_route'.stops[stop_sequence'[k]].positions_on_rails # <<>>
              /\ SquaredGap(stop_sequence'[k])
                     <= MAX_DISTANCE_STOP_TO_LINE * MAX_DISTANCE_STOP_TO_LINE]_vars

\* C11 amended: every stop returned as on the longest line has its positions on
\* the rails and its raw point less than 5 * 50 m from its projection; the first
\* and the last of them are at most 50 m away; a stop in between is moved onto
\* its projection when the distance rounds to at most 50 m and else stays where
\* it is, with one warning for each such stop.
C11_KeptStopsWithinLooserLimit ==
    [][Projected =>
          LET seq == stop_sequence'
              limit == MAX_DISTANCE_STOP_TO_LINE
              stays(i) == 4 * SquaredGap(i) > (2 * limit + 1) * (2 * limit + 1)
          IN /\ \A k \in 1..Len(seq) :
                    /\ cur_route'.stops[seq[k]].positions_on_rails # <<>>
                    /\ SquaredGap(seq[k]) < 25 * limit * limit
                    /\ (k \in {1, Len(seq)} => SquaredGap(seq[k]) <= limit * limit)
                    /\ cur_route'.stops[seq[k]].stop =
                           IF stays(seq[k]) THEN cur_route.stops[seq[k]].stop
                           ELSE project_on_line(cur_route.stops[seq[k]].stop,
                                                cur_route.tracks).projected_point
             /\ Len(cur_route'.warnings) = Cardinality({k \in 1..Len(seq) : stays(seq[k])})]_vars

\* A projected route with a stop kept 120 m from the tracks where it was, and the
\* stop 50.01 m from the end of the tracks moved onto it
C11_Witness ==
    /\ rpc = "walk"
    /\ \E i, j \in 1..Len(stop_sequence) :
          /\ cur_route.stops[stop_sequence[i]].stoparea.name = "k"
          /\ cur_route.stops[stop_sequence[i]].stop = <<2000, 120>>
          /\ cur_route.stops[stop_sequence[j]].stoparea.name = "h"
          /\ cur_route.stops[stop_sequence[j]].stop = <<3000, 0>>

-----------------------------------------------------------------------------
(* Properties of Station.is_station, checked under SpecStation *)

\* The element's mode set: station=* plus every mode tagged yes
ElementModes == {m \in ALL_MODES : TagGet(given.el, "station") = m \/ TagGet(given.el, m) = "yes"}

RailTagged ==
    \/ TagGet(given.el, "railway") \in {"station", "halt"}
    \/ TagGet(given.el, "railway") = "tram_stop" /\ "tram" \in given.modes

NoConstructionKey == \A k \in CONSTRUCTION_KEYS : TagGet(given.el, k) = None

-----------------------------------------------------------------------------
(* Properties of RouteMaster.add, checked under SpecMaster *)

\* The largest number of stops among the accepted variants
MostStops == CHOOSE n \in 0..3 :
    /\ \E i \in 1..Len(built.master.routes) : Len(built.master.routes[i].stops) = n
    /\ \A i \in 1..Len(built.master.routes) : Len(built.master.routes[i].stops) <= n

\* The accepted variant with the most stops that was added first
FirstOfMostStops ==
    built.master.routes[CHOOSE i \in 1..Len(built.master.routes) :
        /\ Len(built.master.routes[i].stops) = MostStops
        /\ \A j \in 1..(i - 1) : Len(built.master.routes[j].stops) < MostStops]

\* C19: after any sequence of RouteMaster.add calls, best is the accepted variant
\* with the largest number of stops, and among the accepted variants with that
\* number of stops the one added first, also when the variants have no stops.
C19_BestIsFirstOfMostStops ==
    (cpc = "adding" /\ built.master.routes # <<>>) => built.master.best = FirstOfMostStops

Refusing == given'.route.mode # built.master.mode /\ built.master.mode # None

\* C20: RouteMaster.add of a variant whose mode differs from the mode fixed for
\* the master records an error on the city and refuses the variant: it is not
\* appended to the variants and does not become best; so every variant of a
\* RouteMaster has the mode of the master.
C20_OtherModeRefused ==
    [][cpc = "adding" =>
          /\ Refusing =>
                /\ Len(built'.errors) > Len(built.errors)
                /\ built'.errors[Len(built'.errors)] = "Incompatible PT mode"
                /\ built'.master.routes = built.master.routes
                /\ built'.master.best = built.master.best
          /\ \A i \in 1..Len(built'.master.routes) :
                built'.master.routes[i].mode = built'.master.mode]_vars

\* A master of mode subway with an accepted variant, which has refused a
\* light_rail variant of more stops
C20_Witness ==
    /\ cpc = "adding"
    /\ built.master.mode = "subway" /\ Len(built.master.routes) = 1
    /\ given.route.mode = "light_rail"
    /\ Len(given.route.stops) > Len(built.master.best.stops)
    /\ built.errors # <<>>

\* The ids of the accepted variants
AcceptedIds == {built.master.routes[i].id : i \in 1..Len(built.master.routes)}

\* a < b for two strings of digits, by the first position where they differ
StringLess(a, b) ==
    \E k \in 1..(Len(a) + 1) :
        /\ k <= Len(b)
        /\ \A j \in 1..(k - 1) : j <= Len(a) /\ a[j] = b[j]
        /\ (k = Len(a) + 1 \/ (k <= Len(a) /\ a[k] < b[k]))

C30_RefusedVariantChangesNothing ==
    [][(cpc = "adding" /\ Refusing) =>
          /\ built'.master.network = built.master.network
          /\ built'.master.colour = built.master.colour
          /\ built'.master.infill = built.master.infill
          /\ built'.master.ref = built.master.ref
          /\ built'.master.name = built.master.name
          /\ built'.master.interval = built.master.interval
          /\ built'.master.id = built.master.id
          /\ built'.master.routes = built.master.routes
          /\ built'.master.best = built.master.best]_vars

-----------------------------------------------------------------------------
(* Properties of a city, checked under SpecCity *)

\* The StopAreas built for the city and kept by it
StopAreasBuilt == {built.city.objects[k] : k \in DOMAIN built.city.objects}

\* C12: in a city with an empty error list, each StopArea built for it, from a
\* stop_area relation or from the entrances near its station, has entrances if
\* and only if it has exits.
C12_EntrancesIffExits ==
    built.city.errors = <<>> =>
        \A sa \in StopAreasBuilt : (sa.entrances # {}) <=> (sa.exits # {})

\* A city without errors after validate, whose station n1 has no stop_area
\* relation and took an entrance-only and an exit-only entrance nearby
C12_Witness ==
    /\ cpc = "done" /\ built.city.errors = <<>>
    /\ \E sa \in StopAreasBuilt :
          /\ sa.id.t = "n"
          /\ sa.entrances # {} /\ sa.exits # {} /\ sa.entrances \cap sa.exits = {}

\* The stations that own a StopArea of a stop of a route of the city
StationsOnRoutes ==
    {built.city.objects[sa].station.id : sa \in used_stop_areas(built.city)}

\* C13: after City.validate the stations that own a stop area of some route stop
\* and the unused stations are disjoint, together they are station_ids, and
\* the reported number of unused stations is the size of the second set.
C13_UsedAndUnusedPartition ==
    cpc \in {"transfers", "done"} =>
        /\ StationsOnRoutes \cap built.city.unused_listed = {}
        /\ StationsOnRoutes \cup built.city.unused_listed = built.city.station_ids
        /\ built.city.unused_stations = Cardinality(built.city.unused_listed)

\* A validated city with stations on routes and a station on none
C13_Witness ==
    /\ cpc = "done"
    /\ StationsOnRoutes # {} /\ built.city.unused_listed # {}
    /\ Len(built.city.routes[1][2].routes) = 2

\* The stop_area_group relations of the snapshot
Groups ==
    {el \in Range(given.elements) :
        el.type = "relation" /\ TagGet(el, "public_transport") = "stop_area_group"}

\* The StopAreas of the city that hold a member of the group among their elements
GroupStopAreas(sag) ==
    {sa.id : sa \in {x \in StopAreasBuilt :
        \E j \in 1..Len(sag.members) : el_id(sag.members[j]) \in get_elements(x)}}

WithinAllowed(found, expected, hundredths) ==
    found < expected /\ (expected - found) * 100 <= hundredths * expected

\* One diagnostic for a count that differs: a warning within the allowed
\* undercount, an error otherwise
CountDiagnosed(found, expected, hundredths, message) ==
    found # expected =>
        IF WithinAllowed(found, expected, hundredths)
        THEN Count(built.city.warnings, message) = 1 /\ Count(built.city.errors, message) = 0
        ELSE Count(built.city.errors, message) = 1 /\ Count(built.city.warnings, message) = 0

\* C17: City.validate records, for the station count and for the interchange
\* count, for found and expected values that differ, exactly one diagnostic: a
\* warning when found is below expected by at most 2 % (stations) or 7 %
\* (interchanges) of expected, an error in every other case.
C17_CountMismatchDiagnosed ==
    cpc \in {"transfers", "done", "crashed"} =>
        /\ CountDiagnosed(built.city.found_stations, built.city.num_stations,
                          ALLOWED_STATIONS_MISMATCH, FoundStations)
        /\ CountDiagnosed(built.city.found_interchanges, built.city.num_interchanges,
                          ALLOWED_TRANSFERS_MISMATCH, FoundInterchanges)

\* The masters of the city whose variants of two or more stops give one key of
\* end stations, and whose best variant is or is not circular
SingleVariantMasters(circular) ==
    {i \in 1..Len(built.city.routes) :
        /\ Cardinality(return_variants(built.city, built.city.routes[i][2], 1,
                                       [variants |-> {}, have_return |-> {}]).variants) = 1
        /\ built.city.routes[i][2].best.is_circular = circular}

-----------------------------------------------------------------------------
(* Properties of process on a malformed cache file, checked under SpecCache *)

\* C14: when the cache file exists but is malformed (not JSON, or JSON that is
\* not a mapping of city names to network, stops and transfers), process starts
\* from an empty cache and gives the export without raising.
C14_MalformedCacheStartsEmpty ==
    (cpc = "done" /\ given.text # "{}") =>
        /\ built.raised = None
        /\ built.loaded = "{}"

-----------------------------------------------------------------------------
(* Properties of Route.build_longest_line, checked under SpecTrack *)

\* The member of the turn of the loop that is next
TrackTurn == cpc = "tracks" /\ built.i <= Len(given.relation.members)

\* The track ways with nodes among the members before member i
TrackWaysBefore(i) ==
    {j \in 1..(i - 1) : is_track_member(given.city, given.relation.members[j])}

\* The step reverses the chain: the chain grows and now starts with what it
\* was, backwards
ChainReversed ==
    /\ TrackTurn
    /\ built.b.track # <<>>
    /\ Reverse(built.b.track) # built.b.track
    /\ Len(built'.b.track) > Len(built.b.track)
    /\ SubSeq(built'.b.track, 1, Len(built.b.track)) = Reverse(built.b.track)

\* C23: the growing chain is reversed at most once per route relation, and only
\* while the second track way of the relation is joined; at every later join,
\* the first join of a chain started after a hole included, only the new way
\* may be reversed.
C23_ChainReversedOnlyAtSecondWay ==
    [][ChainReversed => Cardinality(TrackWaysBefore(built.i)) = 1]_vars

\* C23, amended: the chain is reversed only at the first join of a chain, when
\* the chain is one track way as its member gives it: at the second track way
\* of the relation, and at the first join of each chain started after a hole.
C23_ChainReversedOnlyAtFirstJoin ==
    [][ChainReversed =>
          \E j \in TrackWaysBefore(built.i) :
              /\ \A l \in TrackWaysBefore(built.i) : l <= j
              /\ built.b.track = member_nodes(Element(given.city, el_id(given.relation.members[j])),
                                              given.relation.members[j])]_vars

\* After a hole the chain 3-4 was reversed to take way 3-2
C23_Witness ==
    /\ cpc = "tracks"
    /\ built.b.warned_about_holes
    /\ built.b.track = <<4, 3, 2>>

\* C24: a track way that cannot be joined loses no track way: every track way
\* member with at least two nodes has all its nodes in a candidate chain, that
\* is in the current chain once its turn is over, and the polyline returned is
\* made of a candidate chain of maximal node count.
C24_NoTrackWayLost ==
    [][/\ (TrackTurn /\ is_track_member(given.city, given.relation.members[built.i])) =>
            Range(Element(given.city, el_id(given.relation.members[built.i])).nodes)
                \subseteq Range(built'.b.track)
       /\ (cpc = "tracks" /\ cpc' = "returned") =>
            \E chain \in {built.b.track, built.b.last_track} :
                /\ Len(chain) >= Len(built.b.track)
                /\ Len(chain) >= Len(built.b.last_track)
                /\ Range(built'.returned.last_track) = Range(chain)]_vars

\* Nodes a and b are adjacent in a track way member of the relation
AdjacentOnTrack(a, b) ==
    \E j \in TrackWaysBefore(Len(given.relation.members) + 1) :
        LET nodes == Element(given.city, el_id(given.relation.members[j])).nodes
        IN \E k \in 1..(Len(nodes) - 1) : {nodes[k], nodes[k + 1]} = {a, b}

\* C29: the chain returned by build_longest_line is a contiguous walk over the
\* track ways: no two consecutive entries are equal, and every two consecutive
\* nodes are adjacent nodes of some track way member of the relation, for any
\* order and orientation of the ways and any backward roles.
C29_ReturnedChainIsContiguous ==
    cpc = "returned" =>
        \A i \in 1..(Len(built.returned.last_track) - 1) :
            /\ built.returned.last_track[i] # built.returned.last_track[i + 1]
            /\ AdjacentOnTrack(built.returned.last_track[i], built.returned.last_track[i + 1])

\* A chain of four ways returned, the way with the repeated node among them
C29_Witness ==
    /\ cpc = "returned"
    /\ Len(built.returned.last_track) = 5
    /\ Len(built.b.track) = 6

-----------------------------------------------------------------------------
(* Properties of the order checks of a route, checked under SpecRoute *)

\* check_stops_order_on_tracks returns after the walk in the direct order has
\* failed and the walk over the reversed stop sequence has succeeded
OppositeWalkReturns ==
    /\ rpc = "walk" /\ rpc' = "checked"
    /\ walk.pass = "reversed" /\ walk.w.error = None

\* C22: when the direct walk fails and the walk over the reversed stop sequence
\* succeeds, the route gets the warning 'Tracks seem to go in the opposite
\* direction to stops' and no order error of the tracks, and its track
\* polyline is stored reversed from then on, so that the distances along the
\* line are computed on the reversed polyline.
C22_OppositeTracksStoredReversed ==
    [][/\ OppositeWalkReturns =>
            /\ cur_route'.warnings =
                   Append(cur_route.warnings, "Tracks seem to go in the opposite direction to stops")
            /\ cur_route'.errors = cur_route.errors
            /\ "Stops on tracks are unordered" \notin Range(disorder'.errors)
            /\ cur_route'.tracks = Reverse(cur_route.tracks)
       /\ (rpc \in {"checked", "ordered", "built"}) => cur_route'.tracks = cur_route.tracks]_vars

\* check_and_recover_stops_order is called with a failed order check
OrderCheckFailed ==
    /\ rpc = "checked" /\ rpc' = "ordered"
    /\ (disorder.warnings # <<>> \/ disorder.errors # <<>>)

\* The recovery data are there and try_resort_stops succeeds
RecoverySucceeds ==
    recovery_data # <<>> /\ try_resort_stops(cur_route, recovery_data).success

\* The names of the stop areas of the stops, in order
StopNames(stops) == [i \in 1..Len(stops) |-> stops[i].stoparea.name]

\* C26: when an order check fails and the recovery succeeds, the RouteStops are
\* a permutation of the RouteStops before, in the order of a matched itinerary
\* of the recovery data, and every order error becomes a warning 'Fixed with
\* recovery data' with nothing added to the errors; when the recovery is not
\* available or fails, the order of the RouteStops is unchanged and every order
\* error is added to the errors.
C26_RecoveryReordersOrReports ==
    [][OrderCheckFailed =>
          IF RecoverySucceeds
          THEN /\ Len(cur_route'.stops) = Len(cur_route.stops)
               /\ \A x \in Range(cur_route.stops) :
                      Count(cur_route'.stops, x) = Count(cur_route.stops, x)
               /\ \E k \in 1..Len(recovery_data) :
                      StopNames(cur_route'.stops)
                          = [j \in 1..Len(recovery_data[k].stations) |->
                                recovery_data[k].stations[j].name]
               /\ cur_route'.errors = cur_route.errors
               /\ cur_route'.warnings =
                      cur_route.warnings \o disorder.warnings
                          \o [j \in 1..Len(disorder.errors) |-> "Fixed with recovery data"]
          ELSE /\ cur_route'.stops = cur_route.stops
               /\ cur_route'.errors = cur_route.errors \o disorder.errors
               /\ cur_route'.warnings = cur_route.warnings \o disorder.warnings]_vars

\* A route whose stops were unordered on the tracks and are now in the order of
\* the one itinerary of the recovery data, the error turned into a warning
C26_Witness ==
    /\ rpc = "ordered"
    /\ "Fixed with recovery data" \in Range(cur_route.warnings)
    /\ cur_route.errors = <<>>
    /\ Len(recovery_data) = 1
    /\ StopNames(cur_route.stops)
           = [j \in 1..Len(recovery_data[1].stations) |-> recovery_data[1].stations[j].name]
    /\ "Stops on tracks are unordered" \in Range(disorder.errors)

-----------------------------------------------------------------------------
(* Properties of the loop over the members of a route, checked under SpecMembers *)

\* The member of the turn that is next, its element and its actual role
ThisMember == given.relation.members[built.i]

ThisRole ==
    get_actual_role(Element(given.city, el_id(ThisMember)), ThisMember.role, given.city.modes)

\* A turn of the loop, in replay mode, for an active member that is a stop or a
\* platform of a stop area
ReplayTurn ==
    /\ cpc = "members" /\ built.i <= Len(given.relation.members)
    /\ built.r.replay
    /\ ~IsInactiveRole(ThisMember.role)
    /\ el_id(ThisMember) \in DOMAIN given.city.stations
    /\ ThisRole # None

\* The type of the member was seen before the replay
SeenType ==
    \/ ThisRole = "stop" /\ built.r.seen_stops
    \/ ThisRole = "platform" /\ built.r.seen_platforms

\* The stop area of the member is at none of the stops from the replay index on
NotAhead ==
    \A j \in (built.r.repeat_pos + 1)..Len(built.r.stops) :
        built.r.stops[j].stoparea # given.city.stations[el_id(ThisMember)][1]

\* In replay mode no RouteStop is appended and the replay index does not decrease
ReplayKeepsStops ==
    (cpc = "members" /\ built.r.replay) =>
        /\ built'.r.replay
        /\ Len(built'.r.stops) = Len(built.r.stops)
        /\ \A j \in 1..Len(built.r.stops) : built'.r.stops[j].stoparea = built.r.stops[j].stoparea
        /\ built'.r.repeat_pos >= built.r.repeat_pos

\* C25: once the extraction of the stops is in replay mode, no RouteStop is
\* appended, the replay index never decreases, and every later stop or platform
\* member of a type already seen, or whose stop area is not found at or after
\* the replay index, records an error: none is skipped silently.
C25_ReplayReportsEveryMismatch ==
    [][/\ ReplayKeepsStops
       /\ (ReplayTurn /\ (SeenType \/ NotAhead)) =>
             Len(built'.r.errors) > Len(built.r.errors)]_vars

\* C25, amended: the same while the replay index is within the stops; after
\* the first 'Incorrect order' error the replay index is the number of stops,
\* and every later stop or platform member is skipped with no error.
C25_ReplayReportsUntilOutOfOrder ==
    [][/\ ReplayKeepsStops
       /\ (ReplayTurn /\ built.r.repeat_pos < Len(built.r.stops) /\ (SeenType \/ NotAhead)) =>
             Len(built'.r.errors) > Len(built.r.errors)
       /\ (ReplayTurn /\ built.r.repeat_pos >= Len(built.r.stops)) =>
             /\ "Incorrect order of stops" \in Range(built.r.errors)
             /\ built'.r.errors = built.r.errors
             /\ built'.r.stops = built.r.stops]_vars

\* Stops 1 and 2, then platform 11 replayed, platform 13 out of order, and a
\* stop position after it, of a type already seen, skipped with no error
C25_Witness ==
    /\ cpc = "members" /\ built.i = 6
    /\ built.r.replay /\ built.r.repeat_pos = Len(built.r.stops)
    /\ built.r.errors = <<"Incorrect order of stops">>
    /\ given.relation.members[5] = Member("node", 1, "stop")
    /\ given.relation.members[4] = Member("node", 13, "platform")

-----------------------------------------------------------------------------
(* Properties of the cache over a run of process(), checked under SpecProcess *)

\* The cities of the snapshot that are not good
NotGoodCities == {c \in Range(Cities(inp)) : ~is_good(c)}

\* C27: process never changes the cache entry of a city that is not good,
\* adopted from the cache or not: the entry saved at the end of the run is the
\* entry loaded at its start, and no entry is made for a city that had none.
C27_NotGoodEntryUnchanged ==
    (pc = "done" /\ inp.cache_path # None) =>
        \A c \in NotGoodCities :
            IF c.name \in DOMAIN loaded
            THEN /\ c.name \in DOMAIN cache_file.content
                 /\ cache_file.content[c.name] = loaded[c.name]
            ELSE c.name \notin DOMAIN cache_file.content

\* A run in which city A is good and city B is not: B has an entry from the
\* run before, and the entry of A, which shares its stops, was written anew
C27_Witness ==
    /\ pc = "done" /\ inp.cache_path # None
    /\ inp.goodA /\ ~inp.goodB
    /\ "B" \in DOMAIN loaded
    /\ "A" \in DOMAIN cache_file.content
    /\ DOMAIN cache_file.content["A"].stops # {}

\* The stop uids of the itineraries of the networks of the export
ItineraryUids ==
    UNION {UNION {UNION {{result.networks[n].routes[r].itineraries[v].stops[j][1] :
                            j \in 1..Len(result.networks[n].routes[r].itineraries[v].stops)} :
                         v \in 1..Len(result.networks[n].routes[r].itineraries)} :
                  r \in 1..Len(result.networks[n].routes)} :
           n \in 1..Len(result.networks)}

\* The stop uids at the two ends of the transfers of the export
TransferUids ==
    UNION {{result.transfers[i][1], result.transfers[i][2]} : i \in 1..Len(result.transfers)}

\* C28: every stop uid in an itinerary of an emitted network, fresh or adopted
\* from the cache, and every end of an emitted transfer is the id of exactly
\* one record of the stops of the export.
C28_ExportRefersToItsStops ==
    pc = "done" =>
        \A u \in ItineraryUids \cup TransferUids :
            Cardinality({i \in 1..Len(result.stops) : result.stops[i].id = u}) = 1

\* An export with a fresh network, a network adopted from the cache and transfers
C28_Witness ==
    /\ pc = "done"
    /\ recovered # {}
    /\ Len(result.networks) = 2
    /\ result.transfers # <<>>
    /\ Len(result.stops) = 3

====
